---- MODULE Spec2Model ----
(***************************************************************************)
(* A model of gh-tp's plan-acquisition pipeline: the filename validator    *)
(* (cmd/tools.go), the binary resolver (cmd/tools.go, cmd/errors.go), the  *)
(* plan executor with its signal listener goroutine (cmd/tf.go) and the    *)
(* run command that drives them (rootCmd.RunE).                            *)
(*                                                                         *)
(* Strings are sequences of one-character strings, so that path cleaning,  *)
(* basename extraction and the character allow-list are computed on the    *)
(* characters and not assumed.  The token "NUL" stands for the byte 0x00.  *)
(***************************************************************************)
EXTENDS Integers, Sequences, FiniteSets, TLC

\* ------------------------------------------------------------------------
\* Bounds of the model
\* ------------------------------------------------------------------------

\* longest input string enumerated character by character
MaxLen == 4

\* how many signals the environment may deliver during one run
MaxSignals == 2

\* calls of the renderer made in one process
MaxCalls == 2

\* newlines at the end of a template
MaxNewlines == 3

\* createWithTemplate calls on one rendered file
MaxTemplateCalls == 2

\* ------------------------------------------------------------------------
\* Program constants
\* ------------------------------------------------------------------------

\* const maxFilenameLength = 255
maxFilenameLength == 255

\* ------------------------------------------------------------------------
\* Strings
\* ------------------------------------------------------------------------

Repeat(c, n) == [i \in 1..n |-> c]

Last(s) == s[Len(s)]

Front(s) == SubSeq(s, 1, Len(s) - 1)

\* does the sequence sub occur in s as a contiguous run
Contains(s, sub) ==
    \E i \in 1..(Len(s) - Len(sub) + 1) : SubSeq(s, i, i + Len(sub) - 1) = sub

\* the positions that bound the components of s: before the first
\* character, every separator "/", and after the last character
Bounds(s) == {0, Len(s) + 1} \cup {i \in 1..Len(s) : s[i] = "/"}

\* the k-th of them, in ascending order
BoundAt(s, k) ==
    CHOOSE b \in Bounds(s) : Cardinality({q \in Bounds(s) : q < b}) = k - 1

\* the components of s between the separators "/"
SplitSlash(s) ==
    [k \in 1..(Cardinality(Bounds(s)) - 1) |->
        SubSeq(s, BoundAt(s, k) + 1, BoundAt(s, k + 1) - 1)]

RECURSIVE JoinSlash(_)
JoinSlash(comps) ==
    IF comps = <<>> THEN <<>>
    ELSE IF Len(comps) = 1 THEN Head(comps)
    ELSE Head(comps) \o <<"/">> \o JoinSlash(Tail(comps))

\* filepath.Clean, the element rules: drop empty and "." elements, let an
\* inner ".." cancel the element before it, drop ".." at the root
RECURSIVE CleanElems(_, _, _)
CleanElems(comps, stack, rooted) ==
    IF comps = <<>> THEN stack
    ELSE LET c == Head(comps)
             rest == Tail(comps)
         IN  IF c = <<>> \/ c = <<".">>
             THEN CleanElems(rest, stack, rooted)
             ELSE IF c = <<".", ".">>
             THEN IF stack # <<>> /\ Last(stack) # <<".", ".">>
                  THEN CleanElems(rest, Front(stack), rooted)
                  ELSE IF rooted
                  THEN CleanElems(rest, stack, rooted)
                  ELSE CleanElems(rest, Append(stack, c), rooted)
             ELSE CleanElems(rest, Append(stack, c), rooted)

\* filepath.Clean
Clean(path) ==
    IF path = <<>> THEN <<".">>
    ELSE LET rooted == (Head(path) = "/")
             body == JoinSlash(CleanElems(SplitSlash(path), <<>>, rooted))
             out == IF rooted THEN <<"/">> \o body ELSE body
         IN  IF out = <<>> THEN <<".">> ELSE out

RECURSIVE StripTrailingSlashes(_)
StripTrailingSlashes(s) ==
    IF s # <<>> /\ Last(s) = "/" THEN StripTrailingSlashes(Front(s)) ELSE s

\* filepath.Base
Base(path) ==
    IF path = <<>> THEN <<".">>
    ELSE LET stripped == StripTrailingSlashes(path)
             last == Last(SplitSlash(stripped))
         IN  IF last = <<>> THEN <<"/">> ELSE last

\* the character class of validFilenameChars: [a-zA-Z0-9_\-\.]
AllowedChars ==
    { "a", "b", "c", "d", "e", "f", "g", "h", "i", "j", "k", "l", "m",
      "n", "o", "p", "q", "r", "s", "t", "u", "v", "w", "x", "y", "z",
      "A", "B", "C", "D", "E", "F", "G", "H", "I", "J", "K", "L", "M",
      "N", "O", "P", "Q", "R", "S", "T", "U", "V", "W", "X", "Y", "Z",
      "0", "1", "2", "3", "4", "5", "6", "7", "8", "9", "_", "-", "." }

\* validFilenameChars.MatchString: ^[a-zA-Z0-9_\-\.]+$
MatchValidFilenameChars(s) ==
    /\ s # <<>>
    /\ \A i \in 1..Len(s) : s[i] \in AllowedChars

\* strings.ContainsRune(s, '\x00')
ContainsNul(s) == \E i \in 1..Len(s) : s[i] = "NUL"

\* ------------------------------------------------------------------------
\* validateFilePath
\* ------------------------------------------------------------------------

NoErr == "nil"

\* variant: only "." and ".." are refused, separators are not looked for
NotFilenameOnlyCheckDotsOnly(validatedFilename) ==
    \/ validatedFilename = <<".">>
    \/ validatedFilename = <<".", ".">>

\* step 2 of validateFilePath: the cleaned name is not a bare filename
NotFilenameOnlyCheck(validatedFilename) ==
    \/ Base(validatedFilename) # validatedFilename
    \/ validatedFilename = <<".">>
    \/ validatedFilename = <<".", ".">>

\* variant: the length limit is off by one
TooLongCheckOffByOne(validatedFilename) ==
    Len(validatedFilename) > maxFilenameLength + 1

\* step 4 of validateFilePath
TooLongCheck(validatedFilename) == Len(validatedFilename) > maxFilenameLength

\* variant: the cleaned value is handed back on failure
FailureValueCleaned(path, validatedFilename) == validatedFilename

\* what validateFilePath hands back next to a non-nil error
FailureValue(path, validatedFilename) == path

\* variant: the success value is the basename of the argument as given
SuccessValueBase(path, validatedFilename) == Base(path)

\* what validateFilePath hands back next to a nil error
SuccessValue(path, validatedFilename) == validatedFilename

\* variant: the null byte is looked for before the allowed characters
validateFilePathNullByteFirst(path) ==
    IF path = <<>>
    THEN [value |-> FailureValue(path, path), err |-> "EmptyFilename"]
    ELSE LET validatedFilename == Clean(path)
         IN  IF NotFilenameOnlyCheck(validatedFilename)
             THEN [value |-> FailureValue(path, validatedFilename),
                   err |-> "NotFilenameOnly"]
             ELSE IF ContainsNul(validatedFilename)
             THEN [value |-> FailureValue(path, validatedFilename),
                   err |-> "NullByte"]
             ELSE IF ~MatchValidFilenameChars(validatedFilename)
             THEN [value |-> FailureValue(path, validatedFilename),
                   err |-> "InvalidCharacters"]
             ELSE IF TooLongCheck(validatedFilename)
             THEN [value |-> FailureValue(path, validatedFilename),
                   err |-> "TooLong"]
             ELSE [value |-> SuccessValue(path, validatedFilename),
                   err |-> NoErr]

validateFilePath(path) ==
    IF path = <<>>
    THEN [value |-> FailureValue(path, path), err |-> "EmptyFilename"]
    ELSE LET validatedFilename == Clean(path)
         IN  IF NotFilenameOnlyCheck(validatedFilename)
             THEN [value |-> FailureValue(path, validatedFilename),
                   err |-> "NotFilenameOnly"]
             ELSE IF ~MatchValidFilenameChars(validatedFilename)
             THEN [value |-> FailureValue(path, validatedFilename),
                   err |-> "InvalidCharacters"]
             ELSE IF TooLongCheck(validatedFilename)
             THEN [value |-> FailureValue(path, validatedFilename),
                   err |-> "TooLong"]
             ELSE IF ContainsNul(validatedFilename)
             THEN [value |-> FailureValue(path, validatedFilename),
                   err |-> "NullByte"]
             ELSE [value |-> SuccessValue(path, validatedFilename),
                   err |-> NoErr]

\* ------------------------------------------------------------------------
\* Binary resolver: determineBinary, getBinaryFromConfig, autoDetectBinary
\* ------------------------------------------------------------------------

\* safeexec.LookPath(name) succeeds
LookPath(name, pathSet) == name \in pathSet

\* binariesToFind := []string{"tofu", "terraform"}
binariesToFind == <<"tofu", "terraform">>

\* variant: the loop stops at the first name found
RECURSIVE DetectLoopFirstFound(_, _, _, _)
DetectLoopFirstFound(names, foundBinaries, probes, pathSet) ==
    IF names = <<>> \/ foundBinaries # <<>>
    THEN [found |-> foundBinaries, probed |-> probes]
    ELSE LET binName == Head(names)
         IN  DetectLoopFirstFound(Tail(names),
                                  IF LookPath(binName, pathSet)
                                  THEN Append(foundBinaries, binName)
                                  ELSE foundBinaries,
                                  Append(probes, binName),
                                  pathSet)

\* the lookup loop of autoDetectBinary: every name is probed, the found ones
\* are collected in order
RECURSIVE DetectLoop(_, _, _, _)
DetectLoop(names, foundBinaries, probes, pathSet) ==
    IF names = <<>>
    THEN [found |-> foundBinaries, probed |-> probes]
    ELSE LET binName == Head(names)
         IN  DetectLoop(Tail(names),
                        IF LookPath(binName, pathSet)
                        THEN Append(foundBinaries, binName)
                        ELSE foundBinaries,
                        Append(probes, binName),
                        pathSet)

\* buildMultipleBinariesFoundError: "found both <a> and <b> in your PATH ..."
buildMultipleBinariesFoundError(foundBinaries) ==
    [kind |-> "MultipleBinariesFound", names |-> foundBinaries]

\* buildNoBinaryFoundError
buildNoBinaryFoundError == [kind |-> "NoBinaryFound", names |-> <<>>]

NilError == [kind |-> NoErr, names |-> <<>>]

autoDetectBinary(pathSet) ==
    LET r == DetectLoop(binariesToFind, <<>>, <<>>, pathSet)
    IN  IF Len(r.found) = 0
        THEN [bin |-> "", err |-> NilError, probed |-> r.probed]
        ELSE IF Len(r.found) > 1
        THEN [bin |-> "", err |-> buildMultipleBinariesFoundError(r.found),
              probed |-> r.probed]
        ELSE [bin |-> r.found[1], err |-> NilError, probed |-> r.probed]

\* variant: any configured name is taken as recognized
RecognizedBinaryAny(viperBinary) == TRUE

\* the name test of getBinaryFromConfig
RecognizedBinary(viperBinary) == viperBinary = "terraform" \/ viperBinary = "tofu"

getBinaryFromConfig(viperBinary, pathSet) ==
    IF viperBinary = ""
    THEN [bin |-> "", err |-> NilError, probed |-> <<>>]
    ELSE IF ~RecognizedBinary(viperBinary)
    THEN [bin |-> "",
          err |-> [kind |-> "InvalidBinaryName", names |-> <<viperBinary>>],
          probed |-> <<>>]
    ELSE IF ~LookPath(viperBinary, pathSet)
    THEN [bin |-> "",
          err |-> [kind |-> "BinaryNotFound", names |-> <<viperBinary>>],
          probed |-> <<viperBinary>>]
    ELSE [bin |-> viperBinary, err |-> NilError, probed |-> <<viperBinary>>]

determineBinary(viperBinary, pathSet) ==
    LET c == getBinaryFromConfig(viperBinary, pathSet)
    IN  IF c.err.kind # NoErr THEN c
        ELSE IF c.bin # "" THEN c
        ELSE LET d == autoDetectBinary(pathSet)
                 all == c.probed \o d.probed
             IN  IF d.err.kind # NoErr
                 THEN [bin |-> "", err |-> d.err, probed |-> all]
                 ELSE IF d.bin # ""
                 THEN [bin |-> d.bin, err |-> NilError, probed |-> all]
                 ELSE [bin |-> "", err |-> buildNoBinaryFoundError,
                       probed |-> all]

\* ------------------------------------------------------------------------
\* State
\* ------------------------------------------------------------------------

VARIABLES
    cfg,                \* what viper and the command line supply to RunE
    pc,                 \* position of the main goroutine
    binary,             \* package variable binary
    probed,             \* the LookPath calls made so far, in order
    planFileValidated,  \* RunE locals
    mdFileValidated,
    mdParam,
    planPath,           \* createPlan local
    sigNotify,          \* signal.Notify(sigChan, ...) is in force
    sigChan,            \* the buffered channel: pending signals, closed
    interrupted,        \* atomic.Bool
    listener,           \* position of the listener goroutine
    planErr,            \* error returned by tf.Plan
    loaded,             \* value read by interrupted.Load()
    branch,             \* arm of the result handling createPlan took
    cleanups,           \* completed calls of cleanupSignalResources
    cpResult,           \* what createPlan returned
    fs,                 \* files of the working directory
    removes,            \* os.Remove calls: who, which path, what error
    showCalled,         \* tf.ShowPlanFileRaw was invoked
    mdCalled,           \* createMarkdown was invoked
    status,             \* lines printed by existsOrCreated
    reportCalled,       \* existsOrCreated was invoked
    warned,             \* Logger.Warnf in RunE's interrupt cleanup
    sigCount,           \* signals delivered to the process so far
    sigDuringPlan,      \* a signal reached the process while tf.Plan ran
    flagAtReturn,       \* interrupted flag at the moment tf.Plan returned
    runResult,          \* what RunE returned
    path,               \* argument of a validateFilePath / createMarkdown call
    got,                \* its result
    regot,              \* result of validating got's value once more
    pkg,                \* package-level variables of markdown.go
    mdLog,              \* the renderer calls made so far, in order
    validatedPaths,     \* the names validateFilePath has returned in this run
    touched,            \* the writes and deletes of files, in order
    vpc,                \* position of the validation harness
    conf,               \* createConfig: the ConfigParams built from its arguments
    configExists,       \* createConfig locals
    createFile,
    config,             \* the bytes genConfig returned
    cfgFs,              \* the config file, its backup, the config directory
    cfgFs0,             \* the same before createConfig was called
    cfgRet,             \* what createConfig returned, or why the process exited
    cpc                 \* position in createConfig

cfgVars == <<cfg>>
runVars == <<binary, probed, planFileValidated, mdFileValidated, mdParam,
             runResult>>
planVars == <<planPath, planErr, loaded, branch, cleanups, cpResult,
              flagAtReturn>>
sigVars == <<sigNotify, sigChan, interrupted, listener, sigCount,
             sigDuringPlan>>
obsVars == <<removes, showCalled, mdCalled, status, reportCalled, warned>>
valVars == <<path, got, regot, vpc>>
mdVars == <<pkg, mdLog>>
pathVars == <<validatedPaths, touched>>
confVars == <<conf, configExists, createFile, config, cfgFs, cfgFs0, cfgRet,
              cpc>>

vars == <<cfg, pc, binary, probed, planFileValidated, mdFileValidated,
          mdParam, planPath, sigNotify, sigChan, interrupted, listener,
          planErr, loaded, branch, cleanups, cpResult, fs, removes,
          showCalled, mdCalled, status, reportCalled, warned, sigCount,
          sigDuringPlan, flagAtReturn, runResult, path, got, regot, vpc,
          pkg, mdLog, validatedPaths, touched,
         conf, configExists, createFile, config, cfgFs, cfgFs0, cfgRet, cpc>>

\* ------------------------------------------------------------------------
\* Inputs
\* ------------------------------------------------------------------------

\* values of the 'binary' key: unset, the two kinds, an unrecognized name
BinaryInputs == {"", "terraform", "tofu", "packer"}

\* values of 'planFile' and 'mdFile'
PlanFileInputs == { <<"p">>, <<".", "/", "p">>, <<".", ".", "/", "p">> }
MdFileInputs == { <<"m">>, <<"p">>, <<"m", "/", "x">> }

\* command-line argument: none (plan mode), "-" (stdin mode), anything else
ArgInputs == {"", "-", "x"}

\* plan texts: empty, or some text
PlanTexts == {"", "T"}

\* what standard input holds in stdin mode
StdinInputs == { [st |-> "ok", text |-> ""],
                 [st |-> "ok", text |-> "T"],
                 [st |-> "noInput", text |-> ""] }

\* errors tf.Plan can return besides nil, and errors of tf.ShowPlanFileRaw
PlanErrors == {"exit status 1", "signal: interrupt"}
ShowErrors == {"context deadline exceeded", "exit status 1"}

\* names a validated path can take in this model
FileNames == { validateFilePath(f).value :
                 f \in { g \in PlanFileInputs \cup MdFileInputs :
                            validateFilePath(g).err = NoErr } }

NoFile == [exists |-> FALSE, data |-> <<>>]

doesExist(fsys, name) == name \in DOMAIN fsys /\ fsys[name].exists

\* the file written by '<binary> plan -out=<planPath>'
PlanArtifact == [exists |-> TRUE, data |-> <<"plan-artifact">>]

\* os.Remove(name): the possible errors, given the files there are
RemoveOutcomes(fsys, name) ==
    IF doesExist(fsys, name) THEN {NoErr, "EPERM"} ELSE {"ENOENT"}

\* a file is created or overwritten
WriteFile(fsys, name, file) ==
    [n \in DOMAIN fsys \cup {name} |-> IF n = name THEN file ELSE fsys[n]]

\* os.Remove(name) with error e
Remove(fsys, name, e) ==
    IF e = NoErr /\ name \in DOMAIN fsys
    THEN [fsys EXCEPT ![name] = NoFile]
    ELSE fsys

\* results
NoResult == [kind |-> "none", cause |-> "", text |-> ""]
Result(kind, cause, text) == [kind |-> kind, cause |-> cause, text |-> text]

NoRun ==
    [done |-> FALSE, kind |-> "none", cause |-> "", names |-> <<>>,
     value |-> <<>>]
RunReturn(kind, cause, names, value) ==
    [done |-> TRUE, kind |-> kind, cause |-> cause, names |-> names,
     value |-> value]
RunOk == RunReturn(NoErr, "", <<>>, <<>>)

NoGot == [value |-> <<>>, err |-> "none"]

\* ------------------------------------------------------------------------
\* Markdown renderer and status reporter
\* ------------------------------------------------------------------------

\* cases.Title(language.English).String(binaryName) on the names used here
titleCaseConverter(binaryName) ==
    CASE binaryName = "tofu" -> "Tofu"
      [] binaryName = "terraform" -> "Terraform"
      [] binaryName = "t" -> "T"
      [] OTHER -> binaryName

\* md.NewMarkdown(w).CodeBlocks(lang, text): a fenced code block; the token
\* "FENCE" stands for the three backquotes of a code fence
CodeBlocks(lang, text) == << "FENCE", lang, "\n", text, "\n", "FENCE" >>

\* md.NewMarkdown(w).Details(summary, text)
Details(summary, text) ==
    << "<details><summary>" >> \o summary \o << "</summary>", "\n" >>
      \o text \o << "\n", "</details>" >>

\* a *os.File: nil, or a handle on the named file
NilFile == [nil |-> TRUE, name |-> <<>>]
FileHandle(name) == [nil |-> FALSE, name |-> name]

\* the package-level variables of markdown.go before the first call
PkgFresh ==
    [sb |-> <<>>, sbDetails |-> <<>>, err |-> NoErr, planMd |-> NilFile]

\* outcomes of the file operations of createMarkdown: all succeed, os.Create
\* fails, the write of the document by Build() fails, the appending
\* WriteString fails
MarkdownIO == {"ok", "CreateFailed", "RenderFailed", "WriteFailed"}

\* the error of os.Create, and os.ErrInvalid of a call on a nil *os.File
CreateError == "permission denied"
ErrInvalid == "invalid argument"

\* variant: a single newline is appended to the document
EndOfFileOneNewline == << "\n" >>

\* what createMarkdown appends to the file Build() wrote
EndOfFile == << "\n", "\n" >>

\* variant: the empty plan is rendered like any other
PlanIsEmptyNever(planStr) == FALSE

\* line 120: len(planStr) == 0
PlanIsEmpty(planStr) == planStr = ""

\* the body of createMarkdown: mdName is a validated name, pk the
\* package-level variables at the call; binaryName is read for the title
RenderToFile(mdName, planStr, binaryName, fsys, pk, io) ==
    IF PlanIsEmpty(planStr)
    THEN [file |-> pk.planMd, name |-> mdName, err |-> pk.err,
          fs |-> fsys, pkg |-> pk]
    ELSE LET created == io # "CreateFailed"
             sbNow == pk.sb \o << "\n" >> \o CodeBlocks("terraform", planStr)
                        \o << "\n" >>
             sbDetailsNow == pk.sbDetails
                               \o << titleCaseConverter(binaryName), " ",
                                     "Plan" >>
             built == IF io = "RenderFailed" THEN <<>>
                      ELSE Details(sbDetailsNow, sbNow)
             atEnd == IF io = "WriteFailed" THEN built
                      ELSE built \o EndOfFile
             pkNow == [sb |-> sbNow, sbDetails |-> sbDetailsNow,
                       err |-> IF created THEN NoErr ELSE CreateError,
                       planMd |-> IF created THEN FileHandle(mdName)
                                  ELSE NilFile]
         IN  IF ~created
             THEN [file |-> NilFile, name |-> <<>>, err |-> ErrInvalid,
                   fs |-> fsys, pkg |-> pkNow]
             ELSE [file |-> pkNow.planMd, name |-> mdName,
                   err |-> pkNow.err,
                   fs |-> WriteFile(fsys, mdName,
                                    [exists |-> TRUE, data |-> atEnd]),
                   pkg |-> pkNow]

\* createMarkdown(mdParam, planStr, binaryName) -> (name, error), with the
\* files and the package-level variables afterwards
createMarkdown(mdArg, planText, binaryName, fsys, pk, io) ==
    LET v == validateFilePath(mdArg)
    IN  IF v.err # NoErr
        THEN [file |-> NilFile, name |-> v.value, err |-> v.err,
              fs |-> fsys, pkg |-> pk]
        ELSE RenderToFile(v.value, planText, binaryName, fsys, pk, io)

\* strings.HasSuffix(s, suffix)
HasSuffix(s, suffix) ==
    /\ Len(s) >= Len(suffix)
    /\ SubSeq(s, Len(s) - Len(suffix) + 1, Len(s)) = suffix

\* strings.TrimRight(s, c) for a single character c
TrimRight(s, c) ==
    LET keep == {0} \cup {i \in 1..Len(s) : s[i] # c}
        n == CHOOSE i \in keep : \A k \in keep : k <= i
    IN  SubSeq(s, 1, n)

\* variant: the trailing newlines are always trimmed and two appended
templateStrAlwaysTrimmed(templateFile) ==
    TrimRight(templateFile, "\n") \o << "\n", "\n" >>

\* the padded template of createWithTemplate
templateStr(templateFile) ==
    IF ~HasSuffix(templateFile, << "\n", "\n", "\n" >>)
    THEN TrimRight(templateFile, "\n") \o << "\n", "\n" >>
    ELSE templateFile

\* variant: the template goes after the document
combinedTemplateLast(padded, planMdBytes) == planMdBytes \o padded

\* the bytes createWithTemplate writes: the padded template, then the file
combined(padded, planMdBytes) == padded \o planMdBytes

\* outcomes of the file operations of createWithTemplate: both succeed,
\* os.ReadFile fails, os.WriteFile fails after truncating the file
TemplateIO == {"ok", "ReadFailed", "WriteFailed"}

\* the file createWithTemplate reads and overwrites
TemplateTarget(validatedFilename, planMdFile) == planMdFile.name

\* variant: a file that starts with the padded template already is left as
\* it is
createWithTemplateOnce(validatedFilename, templateFile, planMdFile, fsys, io) ==
    LET target == TemplateTarget(validatedFilename, planMdFile)
    IN  IF io = "ReadFailed" \/ ~doesExist(fsys, target)
        THEN [name |-> validatedFilename, err |-> "ReadFailed", fs |-> fsys]
        ELSE IF io = "WriteFailed"
        THEN [name |-> validatedFilename, err |-> "WriteFailed",
              fs |-> WriteFile(fsys, target,
                               [exists |-> TRUE, data |-> <<>>])]
        ELSE IF /\ Len(fsys[target].data) >= Len(templateStr(templateFile))
                /\ SubSeq(fsys[target].data, 1,
                          Len(templateStr(templateFile)))
                     = templateStr(templateFile)
        THEN [name |-> validatedFilename, err |-> NoErr, fs |-> fsys]
        ELSE [name |-> validatedFilename, err |-> NoErr,
              fs |-> WriteFile(fsys, target,
                               [exists |-> TRUE,
                                data |-> combined(templateStr(templateFile),
                                                  fsys[target].data)])]

\* createWithTemplate(validatedFilename, templateFile, planMdFile) ->
\* (name, error), and the files afterwards; planMdFile is not nil
createWithTemplate(validatedFilename, templateFile, planMdFile, fsys, io) ==
    LET target == TemplateTarget(validatedFilename, planMdFile)
    IN  IF io = "ReadFailed" \/ ~doesExist(fsys, target)
        THEN [name |-> validatedFilename, err |-> "ReadFailed", fs |-> fsys]
        ELSE IF io = "WriteFailed"
        THEN [name |-> validatedFilename, err |-> "WriteFailed",
              fs |-> WriteFile(fsys, target,
                               [exists |-> TRUE, data |-> <<>>])]
        ELSE [name |-> validatedFilename, err |-> NoErr,
              fs |-> WriteFile(fsys, target,
                               [exists |-> TRUE,
                                data |-> combined(templateStr(templateFile),
                                                  fsys[target].data)])]

\* variant: a missing file makes the report fail
existsOrCreatedFailsOnMissing(files, fsys, failAt) ==
    LET n == IF failAt = 0 THEN Len(files) ELSE failAt - 1
        missing == \E i \in 1..n : ~doesExist(fsys, files[i].Name)
    IN  [lines |-> [i \in 1..n |->
                      [purpose |-> files[i].Purpose,
                       created |-> doesExist(fsys, files[i].Name)]],
         err |-> IF failAt = 0 /\ ~missing THEN NoErr
                 ELSE "failed to display status"]

\* existsOrCreated(files): one status line per file until a write of a
\* status line fails (failAt = 0: no write fails)
existsOrCreated(files, fsys, failAt) ==
    LET n == IF failAt = 0 THEN Len(files) ELSE failAt - 1
    IN  [lines |-> [i \in 1..n |->
                      [purpose |-> files[i].Purpose,
                       created |-> doesExist(fsys, files[i].Name)]],
         err |-> IF failAt = 0 THEN NoErr ELSE "failed to display status"]

tpFile(name, purpose) == [Name |-> name, Purpose |-> purpose]

\* ------------------------------------------------------------------------
\* Initial states
\* ------------------------------------------------------------------------

Configs ==
    { c \in [binary : BinaryInputs,
             path : SUBSET {"tofu", "terraform"},
             planFile : PlanFileInputs,
             mdFile : MdFileInputs,
             args : ArgInputs,
             tfFiles : BOOLEAN,
             stdin : StdinInputs] :
        c.args # "-" => c.stdin = [st |-> "noInput", text |-> ""] }

\* the working directory before the run: empty, or holding the plan
\* artifact or the Markdown file of an earlier run, or both
OldMarkdown == [exists |-> TRUE, data |-> <<"old">>]

InitialFiles ==
    { [n \in FileNames |-> NoFile],
      [n \in FileNames |-> IF n = <<"p">> THEN PlanArtifact ELSE NoFile],
      [n \in FileNames |-> IF n = <<"m">> THEN OldMarkdown ELSE NoFile],
      [n \in FileNames |-> IF n = <<"p">> THEN PlanArtifact
                           ELSE IF n = <<"m">> THEN OldMarkdown
                           ELSE NoFile] }

\* createConfig is not called
ConfigOff ==
    /\ conf = [Binary |-> "", PlanFile |-> <<>>, MdFile |-> <<>>]
    /\ configExists = FALSE
    /\ createFile = FALSE
    /\ config = <<>>
    /\ cfgFs = [config |-> [exists |-> FALSE, data |-> <<>>],
                bkup |-> [exists |-> FALSE, data |-> <<>>], dir |-> TRUE]
    /\ cfgFs0 = cfgFs
    /\ cfgRet = [kind |-> "none", fields |-> <<>>]
    /\ cpc = "off"

\* everything but the inputs, before RunE is entered
Fresh ==
    /\ binary = ""
    /\ probed = <<>>
    /\ planFileValidated = <<>>
    /\ mdFileValidated = <<>>
    /\ mdParam = <<>>
    /\ planPath = <<>>
    /\ sigNotify = FALSE
    /\ sigChan = [buf |-> 0, closed |-> FALSE]
    /\ interrupted = FALSE
    /\ listener = "notStarted"
    /\ planErr = "none"
    /\ loaded = FALSE
    /\ branch = "none"
    /\ cleanups = 0
    /\ cpResult = NoResult
    /\ removes = <<>>
    /\ showCalled = FALSE
    /\ mdCalled = FALSE
    /\ status = <<>>
    /\ reportCalled = FALSE
    /\ warned = FALSE
    /\ sigCount = 0
    /\ sigDuringPlan = FALSE
    /\ flagAtReturn = FALSE
    /\ runResult = NoRun
    /\ got = NoGot
    /\ regot = NoGot
    /\ pkg = PkgFresh
    /\ mdLog = <<>>
    /\ validatedPaths = {}
    /\ touched = <<>>

Init ==
    /\ cfg \in Configs
    /\ fs \in InitialFiles
    /\ pc = "start"
    /\ Fresh
    /\ ConfigOff
    /\ path = <<>>
    /\ vpc = "off"

\* ------------------------------------------------------------------------
\* rootCmd.RunE, up to the call of createPlan or the read of stdin
\* ------------------------------------------------------------------------

Running == pc \notin {"done", "killed", "off"}

\* the process exists, so its goroutines can be scheduled: RunE may have
\* returned already
Alive == pc \notin {"killed", "off"}

\* an entry of touched: the operation, the path given to it, and whether
\* validateFilePath had returned that path before
Touch(op, name, validatedBefore) ==
    [op |-> op, path |-> name, validated |-> name \in validatedBefore]

\* the names a validateFilePath call adds to validatedPaths
Passed(v) == IF v.err = NoErr THEN {v.value} ELSE {}

RunStart ==
    /\ pc = "start"
    /\ LET d == determineBinary(cfg.binary, cfg.path)
           pv == validateFilePath(cfg.planFile)
           mv == validateFilePath(cfg.mdFile)
           failure ==
               IF d.err.kind # NoErr
               THEN RunReturn(d.err.kind, "", d.err.names, <<>>)
               ELSE IF pv.err # NoErr
               THEN RunReturn("InvalidPlanFile", pv.err, <<>>, pv.value)
               ELSE IF mv.err # NoErr
               THEN RunReturn("InvalidMdFile", mv.err, <<>>, mv.value)
               ELSE IF cfg.args = "" /\ ~cfg.tfFiles
               THEN RunReturn("NoConfigurationFiles", "", <<>>, <<>>)
               ELSE IF cfg.args \notin {"", "-"}
               THEN RunReturn("UnexpectedArgument", cfg.args, <<>>, <<>>)
               ELSE NoRun
       IN  /\ binary' = d.bin
           /\ probed' = d.probed
           /\ planFileValidated' =
                 IF d.err.kind = NoErr THEN pv.value ELSE planFileValidated
           /\ mdFileValidated' =
                 IF d.err.kind = NoErr /\ pv.err = NoErr
                 THEN mv.value ELSE mdFileValidated
           /\ runResult' = failure
           /\ validatedPaths' =
                 validatedPaths
                   \cup (IF d.err.kind = NoErr THEN Passed(pv) ELSE {})
                   \cup (IF d.err.kind = NoErr /\ pv.err = NoErr
                         THEN Passed(mv) ELSE {})
           /\ UNCHANGED touched
           /\ pc' = IF failure.done THEN "done"
                    ELSE IF cfg.args = "" THEN "createPlan" ELSE "stdin"
    /\ UNCHANGED <<cfg, mdParam, fs>>
    /\ UNCHANGED planVars
    /\ UNCHANGED sigVars
    /\ UNCHANGED obsVars
    /\ UNCHANGED valVars
    /\ UNCHANGED confVars
    /\ UNCHANGED mdVars

\* ------------------------------------------------------------------------
\* createPlan: the main goroutine
\* ------------------------------------------------------------------------

\* lines 20-90: parameters, tfexec.NewTerraform, signal.Notify, go listener,
\* and the start of tf.Plan
CreatePlanEntry ==
    /\ pc = "createPlan"
    /\ LET tfBinaryPath == IF cfg.binary # "" THEN cfg.binary ELSE binary
           pv == validateFilePath(cfg.planFile)
       IN  \E tfexecOk \in BOOLEAN :
             IF tfBinaryPath = ""
             THEN /\ cpResult' = Result("BinaryNotConfigured", "", "")
                  /\ pc' = "returned"
                  /\ UNCHANGED <<planPath, sigNotify, sigChan, listener>>
             ELSE IF pv.err # NoErr
             THEN /\ cpResult' = Result("InvalidPlanFile", pv.err, "")
                  /\ pc' = "returned"
                  /\ UNCHANGED <<planPath, sigNotify, sigChan, listener>>
             ELSE IF ~tfexecOk
             THEN /\ cpResult' = Result("TfexecInitFailed", "tfexec", "")
                  /\ pc' = "returned"
                  /\ planPath' = pv.value
                  /\ UNCHANGED <<sigNotify, sigChan, listener>>
             ELSE /\ planPath' = pv.value
                  /\ sigChan' = [buf |-> 0, closed |-> FALSE]
                  /\ sigNotify' = TRUE
                  /\ listener' = "waiting"
                  /\ pc' = "planning"
                  /\ UNCHANGED cpResult
    /\ validatedPaths' =
          validatedPaths
            \cup (IF cfg.binary # "" \/ binary # ""
                  THEN Passed(validateFilePath(cfg.planFile)) ELSE {})
    /\ UNCHANGED touched
    /\ UNCHANGED <<cfg, fs, interrupted, sigCount, sigDuringPlan, planErr,
                   loaded, branch, cleanups, flagAtReturn>>
    /\ UNCHANGED runVars
    /\ UNCHANGED obsVars
    /\ UNCHANGED valVars
    /\ UNCHANGED confVars
    /\ UNCHANGED mdVars

\* line 90: tf.Plan returns; with a nil error the artifact was written, with
\* an error it may have been written in part
PlanReturns ==
    /\ pc = "planning"
    /\ \E e \in PlanErrors \cup {NoErr}, wrote \in BOOLEAN :
         /\ e = NoErr => wrote
         /\ planErr' = e
         /\ fs' = IF wrote THEN WriteFile(fs, planPath, PlanArtifact) ELSE fs
         /\ touched' = IF wrote
                       THEN Append(touched,
                                   Touch("write", planPath, validatedPaths))
                       ELSE touched
    /\ UNCHANGED validatedPaths
    /\ flagAtReturn' = interrupted
    /\ pc' = "check"
    /\ UNCHANGED <<cfg, planPath, loaded, branch, cleanups, cpResult>>
    /\ UNCHANGED runVars
    /\ UNCHANGED sigVars
    /\ UNCHANGED obsVars
    /\ UNCHANGED valVars
    /\ UNCHANGED confVars
    /\ UNCHANGED mdVars

\* variant: tf.Plan's error is inspected before the interrupted flag
HandlePlanResultErrorFirst(flag, err) ==
    IF err # NoErr THEN "failed"
    ELSE IF flag THEN "interrupted"
    ELSE "succeeded"

\* lines 93-117: which arm the result handling takes, from the value read
\* from the interrupted flag and tf.Plan's error
HandlePlanResult(flag, err) ==
    IF flag THEN "interrupted"
    ELSE IF err # NoErr THEN "failed"
    ELSE "succeeded"

\* line 93: interrupted.Load(), and the choice of the arm
CheckInterrupted ==
    /\ pc = "check"
    /\ loaded' = interrupted
    /\ branch' = HandlePlanResult(interrupted, planErr)
    /\ pc' = "cleanupStop"
    /\ UNCHANGED <<cfg, fs, planPath, planErr, cleanups, cpResult,
                   flagAtReturn>>
    /\ UNCHANGED runVars
    /\ UNCHANGED sigVars
    /\ UNCHANGED obsVars
    /\ UNCHANGED valVars
    /\ UNCHANGED confVars
    /\ UNCHANGED mdVars
    /\ UNCHANGED pathVars

\* cleanupSignalResources, line 50: signal.Stop(sigChan)
\* variant: signal.Stop is left out, the channel stays registered
CleanupStopKeepsNotify ==
    /\ pc = "cleanupStop"
    /\ pc' = "cleanupDrain"
    /\ UNCHANGED <<cfg, fs, sigNotify, sigChan, interrupted, listener,
                   sigCount, sigDuringPlan>>
    /\ UNCHANGED planVars
    /\ UNCHANGED runVars
    /\ UNCHANGED obsVars
    /\ UNCHANGED valVars
    /\ UNCHANGED confVars
    /\ UNCHANGED mdVars
    /\ UNCHANGED pathVars

\* cleanupSignalResources, line 50: signal.Stop(sigChan)
CleanupStop ==
    /\ pc = "cleanupStop"
    /\ sigNotify' = FALSE
    /\ pc' = "cleanupDrain"
    /\ UNCHANGED <<cfg, fs, sigChan, interrupted, listener, sigCount,
                   sigDuringPlan>>
    /\ UNCHANGED planVars
    /\ UNCHANGED runVars
    /\ UNCHANGED obsVars
    /\ UNCHANGED valVars
    /\ UNCHANGED confVars
    /\ UNCHANGED mdVars
    /\ UNCHANGED pathVars

\* the select with a default arm: a pending signal is taken off the channel
DrainChan(ch) ==
    IF ch.buf > 0 /\ ~ch.closed THEN [ch EXCEPT !.buf = 0] ELSE ch

\* variant: close(sigChan) without the deferred recover
CloseWithoutRecover(ch) ==
    [chan |-> [ch EXCEPT !.closed = TRUE], recovered |-> FALSE,
     crashed |-> ch.closed]

\* close(sigChan) inside the function with the deferred recover: closing a
\* closed channel panics, and the panic is recovered
CloseUnderRecover(ch) ==
    [chan |-> [ch EXCEPT !.closed = TRUE], recovered |-> ch.closed,
     crashed |-> FALSE]

\* one whole run of cleanupSignalResources from a given state
cleanupSignalResources(notify, ch) ==
    LET c == CloseUnderRecover(DrainChan(ch))
    IN  [notify |-> FALSE, chan |-> c.chan, recovered |-> c.recovered,
         crashed |-> c.crashed]

\* cleanupSignalResources, lines 51-55: the non-blocking drain
CleanupDrain ==
    /\ pc = "cleanupDrain"
    /\ sigChan' = DrainChan(sigChan)
    /\ pc' = "cleanupClose"
    /\ UNCHANGED <<cfg, fs, sigNotify, interrupted, listener, sigCount,
                   sigDuringPlan>>
    /\ UNCHANGED planVars
    /\ UNCHANGED runVars
    /\ UNCHANGED obsVars
    /\ UNCHANGED valVars
    /\ UNCHANGED confVars
    /\ UNCHANGED mdVars
    /\ UNCHANGED pathVars

\* cleanupSignalResources, lines 56-65: close(sigChan) under recover
CleanupClose ==
    /\ pc = "cleanupClose"
    /\ LET c == CloseUnderRecover(sigChan)
       IN  /\ sigChan' = c.chan
           /\ cleanups' = IF c.crashed THEN cleanups ELSE cleanups + 1
           /\ pc' = IF c.crashed THEN "killed" ELSE "finish"
    /\ UNCHANGED <<cfg, fs, sigNotify, interrupted, listener, sigCount,
                   sigDuringPlan>>
    /\ UNCHANGED <<planPath, planErr, loaded, branch, cpResult, flagAtReturn>>
    /\ UNCHANGED runVars
    /\ UNCHANGED obsVars
    /\ UNCHANGED valVars
    /\ UNCHANGED confVars
    /\ UNCHANGED mdVars
    /\ UNCHANGED pathVars

\* an os.Remove call, as recorded in removes
RemoveCall(who, name, e) == [who |-> who, path |-> name, err |-> e]

\* lines 93-102: the interrupted arm returns ErrInterrupted
FinishInterrupted ==
    /\ pc = "finish"
    /\ branch = "interrupted"
    /\ cpResult' = Result("Interrupted", "", "")
    /\ pc' = "returned"
    /\ UNCHANGED <<cfg, fs, planPath, planErr, loaded, branch, cleanups,
                   flagAtReturn>>
    /\ UNCHANGED runVars
    /\ UNCHANGED sigVars
    /\ UNCHANGED obsVars
    /\ UNCHANGED valVars
    /\ UNCHANGED confVars
    /\ UNCHANGED mdVars
    /\ UNCHANGED pathVars

\* variant: the failure arm returns without removing the artifact
FinishPlanFailedKeepsArtifact ==
    /\ pc = "finish"
    /\ branch = "failed"
    /\ cpResult' = Result("PlanFailed", planErr, "")
    /\ pc' = "returned"
    /\ UNCHANGED <<cfg, fs, planPath, planErr, loaded, branch, cleanups,
                   flagAtReturn>>
    /\ UNCHANGED runVars
    /\ UNCHANGED sigVars
    /\ UNCHANGED obsVars
    /\ UNCHANGED valVars
    /\ UNCHANGED confVars
    /\ UNCHANGED mdVars
    /\ UNCHANGED pathVars

\* lines 105-112: the failure arm removes the artifact, ignoring the error
\* of the removal, and returns "terraform plan failed: %w"
FinishPlanFailed ==
    /\ pc = "finish"
    /\ branch = "failed"
    /\ \E e \in RemoveOutcomes(fs, planPath) :
         /\ fs' = Remove(fs, planPath, e)
         /\ removes' = Append(removes, RemoveCall("createPlan", planPath, e))
    /\ touched' = Append(touched, Touch("delete", planPath, validatedPaths))
    /\ UNCHANGED validatedPaths
    /\ cpResult' = Result("PlanFailed", planErr, "")
    /\ pc' = "returned"
    /\ UNCHANGED <<cfg, planPath, planErr, loaded, branch, cleanups,
                   flagAtReturn>>
    /\ UNCHANGED <<showCalled, mdCalled, status, reportCalled, warned>>
    /\ UNCHANGED runVars
    /\ UNCHANGED sigVars
    /\ UNCHANGED valVars
    /\ UNCHANGED confVars
    /\ UNCHANGED mdVars

\* outcomes of tf.ShowPlanFileRaw(showCtx, planPath): an error (the 30 s
\* deadline among them), or the text of the plan; a missing artifact cannot
\* be shown
ShowOutcomes(fsys, name) ==
    { Result("ShowFailed", e, "") : e \in ShowErrors }
      \cup (IF doesExist(fsys, name)
            THEN { Result("ok", "", t) : t \in PlanTexts }
            ELSE {})

\* variant: a failed show removes the artifact as the failure arm does
ShowPlanRemovesOnFailure ==
    /\ pc = "finish"
    /\ branch = "succeeded"
    /\ showCalled' = TRUE
    /\ \E r \in ShowOutcomes(fs, planPath) :
         /\ cpResult' = r
         /\ fs' = IF r.kind = "ShowFailed"
                  THEN Remove(fs, planPath, NoErr) ELSE fs
    /\ pc' = "returned"
    /\ UNCHANGED <<cfg, planPath, planErr, loaded, branch, cleanups,
                   flagAtReturn>>
    /\ UNCHANGED <<removes, mdCalled, status, reportCalled, warned>>
    /\ UNCHANGED runVars
    /\ UNCHANGED sigVars
    /\ UNCHANGED valVars
    /\ UNCHANGED confVars
    /\ UNCHANGED mdVars
    /\ UNCHANGED pathVars

\* lines 114-130: the success arm shows the plan; the artifact stays
ShowPlan ==
    /\ pc = "finish"
    /\ branch = "succeeded"
    /\ showCalled' = TRUE
    /\ \E r \in ShowOutcomes(fs, planPath) : cpResult' = r
    /\ pc' = "returned"
    /\ UNCHANGED <<cfg, fs, planPath, planErr, loaded, branch, cleanups,
                   flagAtReturn>>
    /\ UNCHANGED <<removes, mdCalled, status, reportCalled, warned>>
    /\ UNCHANGED runVars
    /\ UNCHANGED sigVars
    /\ UNCHANGED valVars
    /\ UNCHANGED confVars
    /\ UNCHANGED mdVars
    /\ UNCHANGED pathVars

\* ------------------------------------------------------------------------
\* createPlan: the listener goroutine and the signals of the environment
\* ------------------------------------------------------------------------

\* a SIGINT or SIGTERM reaches the process: with signal.Notify in force it
\* is queued on sigChan unless the one-slot buffer is full; with no handler
\* installed the default action ends the process
DeliverSignal ==
    /\ Running
    /\ sigCount < MaxSignals
    /\ sigCount' = sigCount + 1
    /\ IF sigNotify
       THEN /\ sigChan' = [sigChan EXCEPT !.buf = 1]
            /\ sigDuringPlan' = (sigDuringPlan \/ pc = "planning")
            /\ pc' = pc
       ELSE /\ pc' = "killed"
            /\ UNCHANGED <<sigChan, sigDuringPlan>>
    /\ UNCHANGED <<cfg, fs, sigNotify, interrupted, listener>>
    /\ UNCHANGED planVars
    /\ UNCHANGED runVars
    /\ UNCHANGED obsVars
    /\ UNCHANGED valVars
    /\ UNCHANGED confVars
    /\ UNCHANGED mdVars
    /\ UNCHANGED pathVars

\* line 70: sig, ok := <-sigChan yields a queued signal
ListenerReceive ==
    /\ Alive
    /\ listener = "waiting"
    /\ sigChan.buf > 0
    /\ sigChan' = [sigChan EXCEPT !.buf = 0]
    /\ listener' = "received"
    /\ UNCHANGED <<cfg, pc, fs, sigNotify, interrupted, sigCount,
                   sigDuringPlan>>
    /\ UNCHANGED planVars
    /\ UNCHANGED runVars
    /\ UNCHANGED obsVars
    /\ UNCHANGED valVars
    /\ UNCHANGED confVars
    /\ UNCHANGED mdVars
    /\ UNCHANGED pathVars

\* lines 71-73: ok is true, interrupted.Store(true)
ListenerStore ==
    /\ Alive
    /\ listener = "received"
    /\ interrupted' = TRUE
    /\ listener' = "finished"
    /\ UNCHANGED <<cfg, pc, fs, sigNotify, sigChan, sigCount, sigDuringPlan>>
    /\ UNCHANGED planVars
    /\ UNCHANGED runVars
    /\ UNCHANGED obsVars
    /\ UNCHANGED valVars
    /\ UNCHANGED confVars
    /\ UNCHANGED mdVars
    /\ UNCHANGED pathVars

\* variant: the listener sets the flag when it finds the channel closed
ListenerClosedSetsFlag ==
    /\ Alive
    /\ listener = "waiting"
    /\ sigChan.buf = 0
    /\ sigChan.closed
    /\ interrupted' = TRUE
    /\ listener' = "finished"
    /\ UNCHANGED <<cfg, pc, fs, sigNotify, sigChan, sigCount, sigDuringPlan>>
    /\ UNCHANGED planVars
    /\ UNCHANGED runVars
    /\ UNCHANGED obsVars
    /\ UNCHANGED valVars
    /\ UNCHANGED confVars
    /\ UNCHANGED mdVars
    /\ UNCHANGED pathVars

\* lines 70, 74-76: the receive on the closed, empty channel yields ok false
ListenerClosed ==
    /\ Alive
    /\ listener = "waiting"
    /\ sigChan.buf = 0
    /\ sigChan.closed
    /\ listener' = "finished"
    /\ UNCHANGED <<cfg, pc, fs, sigNotify, sigChan, interrupted, sigCount,
                   sigDuringPlan>>
    /\ UNCHANGED planVars
    /\ UNCHANGED runVars
    /\ UNCHANGED obsVars
    /\ UNCHANGED valVars
    /\ UNCHANGED confVars
    /\ UNCHANGED mdVars
    /\ UNCHANGED pathVars

\* ------------------------------------------------------------------------
\* rootCmd.RunE, after createPlan returned, and stdin mode
\* ------------------------------------------------------------------------

\* variant: a removal that fails because the file is absent is warned about
WarnOnRemoveAnyError(removeErr) == removeErr # NoErr

\* RunE logs a warning for a failed removal unless the file did not exist
WarnOnRemove(removeErr) == removeErr # NoErr /\ removeErr # "ENOENT"

\* variant: the configured name is removed as it was given
InterruptRemoveTargetAsGiven == cfg.planFile

\* the file RunE removes after an interruption
InterruptRemoveTarget == planFileValidated

\* createPlan returned ErrInterrupted: remove the artifact and return nil
RunHandleInterrupted ==
    /\ pc = "returned"
    /\ cpResult.kind = "Interrupted"
    /\ \E e \in RemoveOutcomes(fs, InterruptRemoveTarget) :
         /\ fs' = Remove(fs, InterruptRemoveTarget, e)
         /\ removes' = Append(removes,
                              RemoveCall("RunE", InterruptRemoveTarget, e))
         /\ warned' = WarnOnRemove(e)
    /\ touched' = Append(touched,
                         Touch("delete", InterruptRemoveTarget, validatedPaths))
    /\ UNCHANGED validatedPaths
    /\ runResult' = RunOk
    /\ pc' = "done"
    /\ UNCHANGED <<cfg, binary, probed, planFileValidated, mdFileValidated,
                   mdParam>>
    /\ UNCHANGED <<showCalled, mdCalled, status, reportCalled>>
    /\ UNCHANGED planVars
    /\ UNCHANGED sigVars
    /\ UNCHANGED valVars
    /\ UNCHANGED confVars
    /\ UNCHANGED mdVars

\* createPlan returned another error: RunE returns it
RunPlanError ==
    /\ pc = "returned"
    /\ cpResult.kind \notin {"ok", "Interrupted"}
    /\ runResult' = RunReturn(cpResult.kind, cpResult.cause, <<>>, <<>>)
    /\ pc' = "done"
    /\ UNCHANGED <<cfg, fs, binary, probed, planFileValidated,
                   mdFileValidated, mdParam>>
    /\ UNCHANGED planVars
    /\ UNCHANGED sigVars
    /\ UNCHANGED obsVars
    /\ UNCHANGED valVars
    /\ UNCHANGED confVars
    /\ UNCHANGED mdVars
    /\ UNCHANGED pathVars

\* what a createMarkdown call adds to touched: the file it wrote, if any,
\* judged against the names validated before the write
MarkdownTouched(mdArg, r, fsys, validatedBefore, log) ==
    LET passed == validatedBefore \cup Passed(validateFilePath(mdArg))
    IN  IF r.fs # fsys
        THEN Append(log, Touch("write", r.pkg.planMd.name, passed))
        ELSE log

\* createPlan returned the plan text: createMarkdown(mdFileValidated, ...)
RunCreateMarkdown ==
    /\ pc = "returned"
    /\ cpResult.kind = "ok"
    /\ mdCalled' = TRUE
    /\ \E io \in MarkdownIO :
         LET r == createMarkdown(mdFileValidated, cpResult.text, binary, fs,
                                 pkg, io)
         IN  /\ fs' = r.fs
             /\ pkg' = r.pkg
             /\ validatedPaths' =
                   validatedPaths \cup Passed(validateFilePath(mdFileValidated))
             /\ touched' = MarkdownTouched(mdFileValidated, r, fs,
                                           validatedPaths, touched)
             /\ IF r.err # NoErr
                THEN /\ runResult' = RunReturn("MarkdownFailed", r.err, <<>>,
                                               mdFileValidated)
                     /\ pc' = "done"
                     /\ UNCHANGED mdParam
                ELSE /\ mdParam' = r.name
                     /\ pc' = "report"
                     /\ UNCHANGED runResult
    /\ UNCHANGED <<cfg, binary, probed, planFileValidated, mdFileValidated>>
    /\ UNCHANGED <<removes, showCalled, status, reportCalled, warned>>
    /\ UNCHANGED planVars
    /\ UNCHANGED sigVars
    /\ UNCHANGED valVars
    /\ UNCHANGED confVars
    /\ UNCHANGED mdLog

\* stdin mode: the text read from standard input goes to createMarkdown
StdinMode ==
    /\ pc = "stdin"
    /\ IF cfg.stdin.st # "ok"
       THEN /\ runResult' = RunReturn("NoStdinInput", "", <<>>, <<>>)
            /\ pc' = "done"
            /\ UNCHANGED <<fs, mdParam, mdCalled, pkg>>
            /\ UNCHANGED pathVars
       ELSE IF cfg.stdin.text = ""
       THEN /\ runResult' = RunReturn("EmptyPlanFromStdin", "", <<>>, <<>>)
            /\ pc' = "done"
            /\ UNCHANGED <<fs, mdParam, mdCalled, pkg>>
            /\ UNCHANGED pathVars
       ELSE /\ mdCalled' = TRUE
            /\ \E io \in MarkdownIO :
                 LET r == createMarkdown(mdFileValidated, cfg.stdin.text,
                                         binary, fs, pkg, io)
                 IN  /\ fs' = r.fs
                     /\ pkg' = r.pkg
                     /\ validatedPaths' =
                           validatedPaths
                             \cup Passed(validateFilePath(mdFileValidated))
                     /\ touched' = MarkdownTouched(mdFileValidated, r, fs,
                                                   validatedPaths, touched)
                     /\ IF r.err # NoErr
                        THEN /\ runResult' = RunReturn("MarkdownFailed", r.err,
                                                       <<>>, mdFileValidated)
                             /\ pc' = "done"
                             /\ UNCHANGED mdParam
                        ELSE /\ mdParam' = r.name
                             /\ pc' = "report"
                             /\ UNCHANGED runResult
    /\ UNCHANGED <<cfg, binary, probed, planFileValidated, mdFileValidated>>
    /\ UNCHANGED <<removes, showCalled, status, reportCalled, warned>>
    /\ UNCHANGED planVars
    /\ UNCHANGED sigVars
    /\ UNCHANGED valVars
    /\ UNCHANGED confVars
    /\ UNCHANGED mdLog

\* variant: the plan artifact is checked in stdin mode as well
filesToCheckAlwaysPlan ==
    <<tpFile(planFileValidated, "Plan"), tpFile(mdParam, "Markdown")>>

\* the files RunE hands to existsOrCreated
filesToCheck ==
    IF cfg.args = ""
    THEN <<tpFile(planFileValidated, "Plan"), tpFile(mdParam, "Markdown")>>
    ELSE <<tpFile(mdParam, "Markdown")>>

\* the final check of RunE
RunReport ==
    /\ pc = "report"
    /\ reportCalled' = TRUE
    /\ \E failAt \in 0..Len(filesToCheck) :
         LET r == existsOrCreated(filesToCheck, fs, failAt)
         IN  /\ status' = r.lines
             /\ runResult' = IF r.err = NoErr THEN RunOk
                             ELSE RunReturn("VerificationFailed", r.err, <<>>,
                                            <<>>)
    /\ pc' = "done"
    /\ UNCHANGED <<cfg, fs, binary, probed, planFileValidated,
                   mdFileValidated, mdParam>>
    /\ UNCHANGED <<removes, showCalled, mdCalled, warned>>
    /\ UNCHANGED planVars
    /\ UNCHANGED sigVars
    /\ UNCHANGED valVars
    /\ UNCHANGED confVars
    /\ UNCHANGED mdVars
    /\ UNCHANGED pathVars

Next ==
    \/ RunStart
    \/ CreatePlanEntry
    \/ PlanReturns
    \/ CheckInterrupted
    \/ CleanupStop
    \/ CleanupDrain
    \/ CleanupClose
    \/ FinishInterrupted
    \/ FinishPlanFailed
    \/ ShowPlan
    \/ DeliverSignal
    \/ ListenerReceive
    \/ ListenerStore
    \/ ListenerClosed
    \/ RunHandleInterrupted
    \/ RunPlanError
    \/ RunCreateMarkdown
    \/ StdinMode
    \/ RunReport

Spec == Init /\ [][Next]_vars

\* the steps of the main goroutine between tf.Plan's return and the end of
\* cleanupSignalResources: straight-line code
TeardownStep ==
    \/ CheckInterrupted
    \/ CleanupStop
    \/ CleanupDrain
    \/ CleanupClose

\* the steps of the listener goroutine
ListenerStep ==
    \/ ListenerReceive
    \/ ListenerStore
    \/ ListenerClosed

\* the run under a scheduler that lets each goroutine that can step do so
SpecLive ==
    /\ Init
    /\ [][Next]_vars
    /\ WF_vars(TeardownStep)
    /\ WF_vars(ListenerStep)

\* ------------------------------------------------------------------------
\* The validator on its own: validateFilePath and createMarkdown applied to
\* arbitrary strings
\* ------------------------------------------------------------------------

\* a letter, the dot, the separator, a character outside the allow-list, and
\* the null byte
Alphabet == {"a", ".", "/", ";", "NUL"}

ShortPaths == UNION { [1..k -> Alphabet] : k \in 0..MaxLen }

\* names around the length limit
LongPaths ==
    { Repeat("a", maxFilenameLength),
      Repeat("a", maxFilenameLength + 1),
      <<".", "/">> \o Repeat("a", maxFilenameLength),
      <<".", "/">> \o Repeat("a", maxFilenameLength + 1),
      Repeat("a", maxFilenameLength) \o <<"/">>,
      Repeat("a", maxFilenameLength + 1) \o <<";">>,
      Repeat("a", 300) \o <<".", "m", "d">>,
      Repeat("a", 302) }

ValidatorInputs == ShortPaths \cup LongPaths

InitValidate ==
    /\ cfg = [binary |-> "", path |-> {}, planFile |-> <<"p">>,
              mdFile |-> <<"m">>, args |-> "",
              tfFiles |-> TRUE, stdin |-> [st |-> "noInput", text |-> ""]]
    /\ fs = [n \in FileNames |-> NoFile]
    /\ pc = "off"
    /\ Fresh
    /\ ConfigOff
    /\ path \in ValidatorInputs
    /\ vpc = "idle"

\* a call validateFilePath(path)
Validate ==
    /\ vpc = "idle"
    /\ got' = validateFilePath(path)
    /\ vpc' = "validated"
    /\ UNCHANGED <<cfg, pc, fs, path, regot>>
    /\ UNCHANGED confVars
    /\ UNCHANGED mdVars
    /\ UNCHANGED pathVars
    /\ UNCHANGED runVars
    /\ UNCHANGED planVars
    /\ UNCHANGED sigVars
    /\ UNCHANGED obsVars

\* a call createMarkdown(path, planStr, binaryName)
CallCreateMarkdown ==
    /\ vpc = "idle"
    /\ \E t \in PlanTexts, b \in {"tofu", "terraform", "t"}, io \in MarkdownIO :
         LET r == createMarkdown(path, t, b, fs, pkg, io)
         IN  /\ got' = [value |-> r.name, err |-> r.err]
             /\ fs' = r.fs
             /\ pkg' = r.pkg
    /\ vpc' = "rendered"
    /\ UNCHANGED <<cfg, pc, path, regot, mdLog>>
    /\ UNCHANGED confVars
    /\ UNCHANGED pathVars
    /\ UNCHANGED runVars
    /\ UNCHANGED planVars
    /\ UNCHANGED sigVars
    /\ UNCHANGED obsVars

\* the value of a successful validateFilePath call is validated again
Revalidate ==
    /\ vpc = "validated"
    /\ got.err = NoErr
    /\ regot' = validateFilePath(got.value)
    /\ vpc' = "revalidated"
    /\ UNCHANGED <<cfg, pc, fs, path, got>>
    /\ UNCHANGED confVars
    /\ UNCHANGED mdVars
    /\ UNCHANGED pathVars
    /\ UNCHANGED runVars
    /\ UNCHANGED planVars
    /\ UNCHANGED sigVars
    /\ UNCHANGED obsVars

NextValidate ==
    \/ Validate
    \/ Revalidate
    \/ CallCreateMarkdown

SpecValidate == InitValidate /\ [][NextValidate]_vars

\* ------------------------------------------------------------------------
\* The renderer on its own: createMarkdown and createWithTemplate called
\* several times in one process
\* ------------------------------------------------------------------------

\* a filename, a name that cleaning changes, a path with a directory
RendererNames == { <<"m">>, <<".", "/", "p">>, <<"m", "/", "x">> }

RendererBinaries == {"tofu", "terraform", "t"}

\* a template body followed by some newlines
TemplateInputs == { <<"x">> \o Repeat("\n", k) : k \in 0..MaxNewlines }

\* the content of a Markdown file left by an earlier process
InitMarkdown ==
    /\ cfg = [binary |-> "", path |-> {}, planFile |-> <<"p">>,
              mdFile |-> <<"m">>, args |-> "",
              tfFiles |-> TRUE, stdin |-> [st |-> "noInput", text |-> ""]]
    /\ fs \in { [n \in FileNames |-> NoFile],
                 [n \in FileNames |-> IF n = <<"m">> THEN OldMarkdown
                                      ELSE NoFile] }
    /\ pc = "off"
    /\ Fresh
    /\ ConfigOff
    /\ path = <<>>
    /\ vpc = "off"

FileAt(fsys, name) == IF name \in DOMAIN fsys THEN fsys[name] ELSE NoFile

\* one entry of mdLog
Call(op, arg, text, bin, template, io, target, fsBefore, pkBefore, r) ==
    [op |-> op, arg |-> arg, text |-> text, bin |-> bin,
     template |-> template, io |-> io, target |-> target,
     before |-> FileAt(fsBefore, target), after |-> FileAt(r.fs, target),
     wrote |-> r.fs # fsBefore, errBefore |-> pkBefore.err,
     name |-> r.name, err |-> r.err]

\* a call createMarkdown(mdParam, planStr, binaryName); the outcome of the
\* file operations matters only when there are any
MarkdownCall(names, texts, binaries, outcomes) ==
    /\ \E mdArg \in names, t \in texts, b \in binaries, io \in outcomes :
         LET v == validateFilePath(mdArg)
             r == createMarkdown(mdArg, t, b, fs, pkg, io)
         IN  /\ io = "ok" \/ (v.err = NoErr /\ t # "")
             /\ fs' = r.fs
             /\ pkg' = r.pkg
             /\ mdLog' = Append(mdLog,
                                Call("createMarkdown", mdArg, t, b, <<>>, io,
                                     IF v.err = NoErr THEN v.value ELSE <<>>,
                                     fs, pkg, r))
    /\ UNCHANGED <<cfg, pc>>
    /\ UNCHANGED runVars
    /\ UNCHANGED planVars
    /\ UNCHANGED sigVars
    /\ UNCHANGED obsVars
    /\ UNCHANGED valVars
    /\ UNCHANGED confVars
    /\ UNCHANGED pathVars

CallMarkdown ==
    /\ Len(mdLog) < MaxCalls
    /\ MarkdownCall(RendererNames, PlanTexts, RendererBinaries, MarkdownIO)

\* a call createWithTemplate(validatedFilename, templateFile, planMd) on
\* the file handle createMarkdown returned
TemplateCall ==
    /\ ~pkg.planMd.nil
    /\ \E n \in RendererNames, templateFile \in TemplateInputs,
          io \in TemplateIO :
         LET v == validateFilePath(n)
             r == createWithTemplate(v.value, templateFile, pkg.planMd, fs, io)
         IN  /\ v.err = NoErr
             /\ fs' = r.fs
             /\ mdLog' = Append(mdLog,
                                Call("createWithTemplate", v.value, "", "",
                                     templateFile, io,
                                     TemplateTarget(v.value, pkg.planMd),
                                     fs, pkg, r))
    /\ UNCHANGED <<cfg, pc, pkg>>
    /\ UNCHANGED runVars
    /\ UNCHANGED planVars
    /\ UNCHANGED sigVars
    /\ UNCHANGED obsVars
    /\ UNCHANGED valVars
    /\ UNCHANGED confVars
    /\ UNCHANGED pathVars

CallTemplate ==
    /\ Len(mdLog) < MaxCalls
    /\ TemplateCall

NextMarkdown ==
    \/ CallMarkdown
    \/ CallTemplate

SpecMarkdown == InitMarkdown /\ [][NextMarkdown]_vars

\* ------------------------------------------------------------------------
\* The template composition on its own: one document is rendered and
\* createWithTemplate is called on it several times
\* ------------------------------------------------------------------------

\* the first call of the process renders a document without a failure
RenderOnce ==
    /\ mdLog = <<>>
    /\ MarkdownCall(RendererNames, {"T"}, {"tofu"}, {"ok"})

ComposeTemplate ==
    /\ mdLog # <<>>
    /\ Len(mdLog) <= MaxTemplateCalls
    /\ TemplateCall

NextTemplate ==
    \/ RenderOnce
    \/ ComposeTemplate

SpecTemplate == InitMarkdown /\ [][NextTemplate]_vars

\* ------------------------------------------------------------------------
\* createConfig, called by the init command
\* ------------------------------------------------------------------------

\* one validator.FieldError: the field and the tag it failed
FieldError(field, tag) == [Field |-> field, Tag |-> tag]

\* validate.Struct on ConfigParams: the failing fields in struct order, each
\* with the first tag it fails (oneof; required; required, nefield=PlanFile)
FieldErrors(c) ==
    (IF c.Binary \in {"terraform", "tofu"}
     THEN <<>> ELSE << FieldError("Binary", "oneof") >>)
    \o (IF c.PlanFile # <<>>
        THEN <<>> ELSE << FieldError("PlanFile", "required") >>)
    \o (IF c.MdFile = <<>>
        THEN << FieldError("MdFile", "required") >>
        ELSE IF c.MdFile = c.PlanFile
        THEN << FieldError("MdFile", "nefield") >>
        ELSE <<>>)

ConfigNil == [kind |-> NoErr, fields |-> <<>>]

validateConfig(c) ==
    IF FieldErrors(c) = <<>>
    THEN ConfigNil
    ELSE [kind |-> "ValidationFailed", fields |-> FieldErrors(c)]

\* toml.Marshal of the parameters
genConfig(c) ==
    << [binary |-> c.Binary, planFile |-> c.PlanFile, mdFile |-> c.MdFile,
        verbose |-> FALSE] >>

\* how the file operations of BackupFile can end
BackupIO == {"ok", "StatFailed", "CreateFailed", "CopyFailed",
             "CopyFailedNotRemoved", "SyncFailed"}

\* BackupFile(source, dest): the destination afterwards and the error; the
\* source is only read
BackupFile(source, dest, io) ==
    CASE io = "ok" ->
            [dest |-> [exists |-> TRUE, data |-> source.data], err |-> NoErr]
      [] io = "StatFailed" -> [dest |-> dest, err |-> io]
      [] io = "CreateFailed" -> [dest |-> dest, err |-> io]
      [] io = "CopyFailed" -> [dest |-> NoFile, err |-> io]
      [] io = "CopyFailedNotRemoved" ->
            [dest |-> [exists |-> TRUE, data |-> <<>>],
             err |-> "CopyFailed"]
      [] io = "SyncFailed" ->
            [dest |-> [exists |-> TRUE, data |-> source.data], err |-> io]

\* os.WriteFile that fails: the file is as before or was truncated
FailedWrite(file) == {file, [exists |-> TRUE, data |-> <<>>]}

\* files of earlier runs: a config file whose binary is none this call can
\* write, and a backup made in the same minute
OldConfig ==
    [exists |-> TRUE,
     data |-> << [binary |-> "old", planFile |-> <<"p">>,
                  mdFile |-> <<"m">>, verbose |-> FALSE] >>]
OldBackup ==
    [exists |-> TRUE,
     data |-> << [binary |-> "older", planFile |-> <<"p">>,
                  mdFile |-> <<"m">>, verbose |-> FALSE] >>]

ConfigInputs ==
    [Binary : BinaryInputs,
     PlanFile : {<<>>, <<"p">>},
     MdFile : {<<>>, <<"m">>, <<"p">>}]

ConfigFiles ==
    { f \in [config : {NoFile, OldConfig}, bkup : {NoFile, OldBackup},
             dir : BOOLEAN] :
        f.config.exists => f.dir }

InitConfig ==
    /\ cfg = [binary |-> "", path |-> {}, planFile |-> <<"p">>,
              mdFile |-> <<"m">>, args |-> "",
              tfFiles |-> TRUE, stdin |-> [st |-> "noInput", text |-> ""]]
    /\ fs = [n \in FileNames |-> NoFile]
    /\ pc = "off"
    /\ Fresh
    /\ path = <<>>
    /\ vpc = "off"
    /\ conf \in ConfigInputs
    /\ configExists = FALSE
    /\ createFile = FALSE
    /\ config = <<>>
    /\ cfgFs \in ConfigFiles
    /\ cfgFs0 = cfgFs
    /\ cfgRet = [kind |-> "none", fields |-> <<>>]
    /\ cpc = "start"

ConfigIdle ==
    /\ UNCHANGED <<cfg, pc, fs>>
    /\ UNCHANGED runVars
    /\ UNCHANGED planVars
    /\ UNCHANGED sigVars
    /\ UNCHANGED obsVars
    /\ UNCHANGED valVars
    /\ UNCHANGED mdVars
    /\ UNCHANGED pathVars

\* lines 306-314: createOrOverwrite looks for the file and asks the user
ConfigAsk ==
    /\ cpc = "start"
    /\ \E answer \in {"yes", "no", "error"} :
         IF answer = "error"
         THEN /\ cfgRet' = [kind |-> "PromptFailed", fields |-> <<>>]
              /\ cpc' = "returned"
              /\ UNCHANGED <<configExists, createFile>>
         ELSE /\ configExists' = cfgFs.config.exists
              /\ createFile' = (answer = "yes")
              /\ cpc' = "validate"
              /\ UNCHANGED cfgRet
    /\ UNCHANGED <<conf, config, cfgFs, cfgFs0>>
    /\ ConfigIdle

\* lines 316-342: the parameters are validated, a validation error is logged,
\* and the TOML is generated; lines 397-401: without the user's consent the
\* TOML is logged and the error variable, nil after genConfig, is returned
ConfigValidate ==
    /\ cpc = "validate"
    /\ config' = genConfig(conf)
    /\ IF createFile
       THEN /\ cpc' = "mkdir"
            /\ UNCHANGED cfgRet
       ELSE /\ cpc' = "returned"
            /\ cfgRet' = ConfigNil
    /\ UNCHANGED <<conf, configExists, createFile, cfgFs, cfgFs0>>
    /\ ConfigIdle

\* lines 345-354: the directory of the config file is created when missing
ConfigMkdir ==
    /\ cpc = "mkdir"
    /\ IF cfgFs.dir
       THEN /\ cpc' = IF configExists THEN "backup" ELSE "write"
            /\ UNCHANGED <<cfgFs, cfgRet>>
       ELSE \E ok \in BOOLEAN :
              IF ok
              THEN /\ cfgFs' = [cfgFs EXCEPT !.dir = TRUE]
                   /\ cpc' = IF configExists THEN "backup" ELSE "write"
                   /\ UNCHANGED cfgRet
              ELSE /\ cfgRet' = [kind |-> "MkdirFailed", fields |-> <<>>]
                   /\ cpc' = "exited"
                   /\ UNCHANGED cfgFs
    /\ UNCHANGED <<conf, configExists, createFile, config, cfgFs0>>
    /\ ConfigIdle

\* lines 356-368: a new config file is written; Logger.Fatalf ends the
\* process when that fails
ConfigWriteNew ==
    /\ cpc = "write"
    /\ \E ok \in BOOLEAN :
         IF ok
         THEN /\ cfgFs' = [cfgFs EXCEPT
                             !.config = [exists |-> TRUE, data |-> config]]
              /\ cfgRet' = ConfigNil
              /\ cpc' = "returned"
         ELSE /\ \E f \in FailedWrite(cfgFs.config) :
                    cfgFs' = [cfgFs EXCEPT !.config = f]
              /\ cfgRet' = [kind |-> "WriteFailed", fields |-> <<>>]
              /\ cpc' = "exited"
    /\ UNCHANGED <<conf, configExists, createFile, config, cfgFs0>>
    /\ ConfigIdle

\* variant: a failed backup is passed over
ConfigBackupIgnoresFailure ==
    /\ cpc = "backup"
    /\ \E io \in BackupIO :
         LET b == BackupFile(cfgFs.config, cfgFs.bkup, io)
         IN  /\ cfgFs' = [cfgFs EXCEPT !.bkup = b.dest]
             /\ cpc' = "overwrite"
             /\ UNCHANGED cfgRet
    /\ UNCHANGED <<conf, configExists, createFile, config, cfgFs0>>
    /\ ConfigIdle

\* lines 369-384: the existing file is copied to the backup name;
\* Logger.Fatal ends the process when that fails
ConfigBackup ==
    /\ cpc = "backup"
    /\ \E io \in BackupIO :
         LET b == BackupFile(cfgFs.config, cfgFs.bkup, io)
         IN  /\ cfgFs' = [cfgFs EXCEPT !.bkup = b.dest]
             /\ IF b.err = NoErr
                THEN /\ cpc' = "overwrite"
                     /\ UNCHANGED cfgRet
                ELSE /\ cpc' = "exited"
                     /\ cfgRet' = [kind |-> "BackupFailed", fields |-> <<>>]
    /\ UNCHANGED <<conf, configExists, createFile, config, cfgFs0>>
    /\ ConfigIdle

\* lines 386-395, 402: the existing file is overwritten; a failure is
\* returned, otherwise the error variable of the function, nil since
\* genConfig
ConfigOverwrite ==
    /\ cpc = "overwrite"
    /\ \E ok \in BOOLEAN :
         IF ok
         THEN /\ cfgFs' = [cfgFs EXCEPT
                             !.config = [exists |-> TRUE, data |-> config]]
              /\ cfgRet' = ConfigNil
         ELSE /\ \E f \in FailedWrite(cfgFs.config) :
                    cfgFs' = [cfgFs EXCEPT !.config = f]
              /\ cfgRet' = [kind |-> "WriteFailed", fields |-> <<>>]
    /\ cpc' = "returned"
    /\ UNCHANGED <<conf, configExists, createFile, config, cfgFs0>>
    /\ ConfigIdle

NextConfig ==
    \/ ConfigAsk
    \/ ConfigValidate
    \/ ConfigMkdir
    \/ ConfigWriteNew
    \/ ConfigBackup
    \/ ConfigOverwrite

SpecConfig == InitConfig /\ [][NextConfig]_vars

\* ------------------------------------------------------------------------
\* Properties of the plan executor
\* ------------------------------------------------------------------------

\* createPlan ran tf.Plan and has returned
PlanHandled == cpResult.kind # "none" /\ planErr # "none"

\* RunE got past the resolution of the binary
Resolved == pc \notin {"start", "off", "killed"}

\* C1: once tf.Plan has returned, a set interrupted flag makes createPlan
\* return ErrInterrupted whatever tf.Plan reported: the arm is chosen from
\* the flag first, a flag found set (and so a flag already set when tf.Plan
\* returned) yields Interrupted, and PlanFailed is returned only when the
\* flag was read as unset.
C1_InterruptionPrecedence ==
    /\ (branch # "none" /\ loaded) => branch = "interrupted"
    /\ (PlanHandled /\ loaded) => cpResult = Result("Interrupted", "", "")
    /\ (PlanHandled /\ flagAtReturn) => cpResult.kind = "Interrupted"
    /\ cpResult.kind = "PlanFailed" => ~loaded /\ ~flagAtReturn

C1_Witness ==
    /\ cpResult.kind = "Interrupted"
    /\ flagAtReturn
    /\ planErr \in PlanErrors

\* C2: if a signal was delivered to the process while tf.Plan was running,
\* createPlan never returns the plan-failure error.
C2_SignalNeverMisreported ==
    (sigDuringPlan /\ PlanHandled) => cpResult.kind # "PlanFailed"

\* C3: when the flag was not found set and tf.Plan returned an error,
\* createPlan calls os.Remove on the artifact once, ignores the error of the
\* removal, returns PlanFailed wrapping tf.Plan's error, and never invokes
\* the show operation.
C3_PlanFailedCleanup ==
    (PlanHandled /\ ~loaded /\ planErr # NoErr) =>
        /\ cpResult = Result("PlanFailed", planErr, "")
        /\ ~showCalled
        /\ Len(removes) = 1
        /\ removes[1].who = "createPlan"
        /\ removes[1].path = planPath
        /\ removes[1].err = NoErr => ~doesExist(fs, planPath)

C3_Witness ==
    /\ cpResult.kind = "PlanFailed"
    /\ Len(removes) = 1
    /\ removes[1].err = "EPERM"
    /\ doesExist(fs, planPath)

\* C4: when tf.Plan succeeded and the flag was not found set, the show
\* operation runs; a failed show gives ShowFailed wrapping the error, with
\* the artifact still on disk and no removal attempted; a successful show
\* gives the plan text and no error.
C4_ShowAfterSuccess ==
    (PlanHandled /\ ~loaded /\ planErr = NoErr) =>
        /\ showCalled
        /\ cpResult.kind \in {"ShowFailed", "ok"}
        /\ cpResult.kind = "ShowFailed" =>
              /\ cpResult.cause \in ShowErrors
              /\ cpResult.text = ""
              /\ fs[planPath] = PlanArtifact
              /\ removes = <<>>
        /\ cpResult.kind = "ok" =>
              /\ cpResult.cause = ""
              /\ cpResult.text \in PlanTexts

C4_Witness ==
    /\ cpResult.kind = "ShowFailed"
    /\ showCalled
    /\ doesExist(fs, planPath)

\* C5: when RunE receives Interrupted from createPlan it calls os.Remove on
\* the plan artifact; a removal that fails because the file does not exist
\* is not warned about, any other failure is only logged, RunE returns nil
\* either way, and neither createMarkdown nor existsOrCreated is invoked.
C5_InterruptedCleanup ==
    /\ cpResult.kind = "Interrupted" => ~mdCalled /\ ~reportCalled
    /\ (cpResult.kind = "Interrupted" /\ runResult.done) =>
          /\ runResult = RunOk
          /\ Len(removes) = 1
          /\ removes[1].who = "RunE"
          /\ removes[1].path = planFileValidated
          /\ removes[1].err = "ENOENT" => ~warned
          /\ removes[1].err = "EPERM" => warned
          /\ removes[1].err = NoErr =>
                ~warned /\ ~doesExist(fs, planFileValidated)

C5_Witness ==
    /\ cpResult.kind = "Interrupted"
    /\ runResult.done
    /\ Len(removes) = 1
    /\ removes[1].err = "ENOENT"

\* ------------------------------------------------------------------------
\* Properties of the binary resolver
\* ------------------------------------------------------------------------

\* C6: with no binary configured both names are always probed, and when
\* both are on the search path resolution fails with an error naming both
\* and no binary is returned.
C6_AmbiguityDetected ==
    (Resolved /\ cfg.binary = "") =>
        /\ probed = <<"tofu", "terraform">>
        /\ cfg.path = {"tofu", "terraform"} =>
              /\ runResult.done
              /\ runResult.kind = "MultipleBinariesFound"
              /\ runResult.names = <<"tofu", "terraform">>
              /\ binary = ""

C6_Witness ==
    /\ cfg.binary = ""
    /\ cfg.path = {"tofu", "terraform"}
    /\ runResult.kind = "MultipleBinariesFound"

ResolverErrors ==
    {"InvalidBinaryName", "BinaryNotFound", "MultipleBinariesFound",
     "NoBinaryFound"}

\* C7: with a binary configured, an unrecognized name fails with
\* InvalidBinaryName, a recognized name missing from the search path fails
\* with BinaryNotFound, and otherwise the configured kind is returned after
\* a single lookup of that name, whatever else is on the search path.
C7_ConfiguredBinary ==
    (Resolved /\ cfg.binary # "") =>
        /\ cfg.binary \notin {"terraform", "tofu"} =>
              /\ runResult.kind = "InvalidBinaryName"
              /\ runResult.names = <<cfg.binary>>
              /\ binary = ""
        /\ (cfg.binary \in {"terraform", "tofu"}
              /\ cfg.binary \notin cfg.path) =>
              /\ runResult.kind = "BinaryNotFound"
              /\ runResult.names = <<cfg.binary>>
              /\ binary = ""
        /\ (cfg.binary \in {"terraform", "tofu"}
              /\ cfg.binary \in cfg.path) =>
              /\ binary = cfg.binary
              /\ probed = <<cfg.binary>>
              /\ runResult.kind \notin ResolverErrors

C7_Witness ==
    /\ Resolved
    /\ cfg.binary = "terraform"
    /\ cfg.path = {"tofu", "terraform"}
    /\ binary = "terraform"

\* ------------------------------------------------------------------------
\* Properties of the filename validator
\* ------------------------------------------------------------------------

StartsWithSlash(s) == s # <<>> /\ Head(s) = "/"

\* C8, as stated: every input that contains "/", contains "..", or starts
\* with "/" fails with NotFilenameOnly and is returned unchanged.
C8_EverySeparatorRejected ==
    (vpc = "validated"
       /\ (Contains(path, <<"/">>) \/ Contains(path, <<".", ".">>)
             \/ StartsWithSlash(path))) =>
        /\ got.err = "NotFilenameOnly"
        /\ got.value = path

\* C8, amended: every non-empty input whose cleaned form still holds a "/"
\* without being the root "/" itself, or is "." or "..", fails with
\* NotFilenameOnly and is returned unchanged; every input that starts with
\* "/" fails (NotFilenameOnly, or InvalidCharacters when it cleans to the
\* root) and is returned unchanged.
C8_CleanedSeparatorRejected ==
    vpc = "validated" =>
        /\ (path # <<>>
              /\ \/ Contains(Clean(path), <<"/">>) /\ Clean(path) # <<"/">>
                 \/ Clean(path) \in { <<".">>, <<".", ".">> }) =>
              /\ got.err = "NotFilenameOnly"
              /\ got.value = path
        /\ StartsWithSlash(path) =>
              /\ got.err \in {"NotFilenameOnly", "InvalidCharacters"}
              /\ got.err = "InvalidCharacters" => Clean(path) = <<"/">>
              /\ got.value = path

C8_Witness ==
    /\ vpc = "validated"
    /\ path = <<"a", "/", "/", "a">>
    /\ got.err = "NotFilenameOnly"
    /\ got.value = path

\* C9: whenever validateFilePath succeeds, the value returned equals
\* basename(clean(input)), is non-empty, is neither "." nor "..", holds only
\* characters of [a-zA-Z0-9_.-] (so no separator and no null byte), and is
\* at most 255 characters long.
C9_ValidatedFilename ==
    (vpc = "validated" /\ got.err = NoErr) =>
        /\ got.value = Base(Clean(path))
        /\ got.value # <<>>
        /\ got.value \notin { <<".">>, <<".", ".">> }
        /\ \A i \in 1..Len(got.value) :
              /\ got.value[i] \in AllowedChars
              /\ got.value[i] \notin {"/", "NUL"}
        /\ Len(got.value) <= 255

C9_Witness ==
    /\ vpc = "validated"
    /\ got.err = NoErr
    /\ Len(got.value) = 255
    /\ path # got.value

ValidationErrors ==
    {"EmptyFilename", "NotFilenameOnly", "InvalidCharacters", "TooLong",
     "NullByte"}

C11_ValidateIdempotent ==
    vpc = "revalidated" => regot = [value |-> got.value, err |-> NoErr]

\* an accepted argument that cleaning changed has been validated twice
C11_Witness ==
    /\ vpc = "revalidated"
    /\ got.err = NoErr
    /\ got.value # path
    /\ regot.value = got.value

\* ------------------------------------------------------------------------
\* Properties of the Markdown renderer
\* ------------------------------------------------------------------------

\* the calls createMarkdown(...) of mdLog that passed the filename validation
MarkdownCalls ==
    { i \in 1..Len(mdLog) :
        /\ mdLog[i].op = "createMarkdown"
        /\ validateFilePath(mdLog[i].arg).err = NoErr }

\* those that had a plan text to render
RenderCalls == { i \in MarkdownCalls : mdLog[i].text # "" }

\* those whose file operations all succeeded
RenderedCalls == { i \in RenderCalls : mdLog[i].io = "ok" }

\* C12: createMarkdown with an empty plan text creates and writes no file,
\* returns the validated filename with a nil error whatever earlier calls
\* did, and leaves a file that did not exist non-existent.
C12_EmptyPlanShortCircuit ==
    \A i \in MarkdownCalls :
        mdLog[i].text = "" =>
            /\ ~mdLog[i].wrote
            /\ mdLog[i].name = validateFilePath(mdLog[i].arg).value
            /\ mdLog[i].err = NoErr
            /\ ~mdLog[i].before.exists => ~mdLog[i].after.exists

\* the title between the summary tags of a rendered document
SummaryOf(data) ==
    LET close == CHOOSE i \in 1..Len(data) :
                     /\ data[i] = "</summary>"
                     /\ \A k \in 1..(i - 1) : data[k] # "</summary>"
    IN  SubSeq(data, 2, close - 1)

\* the table of titles by binary kind name
TitleTable(binaryName) ==
    IF binaryName = "tofu" THEN << "OpenTofu", " ", "plan" >>
    ELSE IF binaryName = "terraform" THEN << "Terraform", " ", "plan" >>
    ELSE << "Plan", " ", "Details" >>

\* C13: the summary title of the rendered file is taken from the table:
\* OpenTofu plan for tofu, Terraform plan for terraform, Plan Details for any
\* other name, and the call returns no error.
C13_TitleFromTable ==
    \A i \in RenderedCalls :
        /\ mdLog[i].err = NoErr
        /\ SummaryOf(mdLog[i].after.data) = TitleTable(mdLog[i].bin)

\* number of newlines at the end of s
TrailingNewlines(s) == Len(s) - Len(TrimRight(s, "\n"))

\* data is a details block that holds a fenced terraform block around text
DetailsAround(data, text) ==
    LET body == TrimRight(data, "\n")
    IN  /\ body # <<>>
        /\ Head(body) = "<details><summary>"
        /\ Last(body) = "</details>"
        /\ Contains(body, CodeBlocks("terraform", text))

\* the renders into a path where no file was
FreshRenders == { i \in RenderedCalls : ~mdLog[i].before.exists }

C15_HistoryIndependent ==
    \A i \in RenderedCalls :
        (/\ i + 1 \in RenderedCalls
         /\ mdLog[i + 1].text = mdLog[i].text
         /\ mdLog[i + 1].bin = mdLog[i].bin)
            => mdLog[i + 1].after.data = mdLog[i].after.data

\* C16: a render whose create, write of the document or final write fails
\* returns a non-nil error.
C16_FailureReturned ==
    \A i \in RenderCalls : mdLog[i].io # "ok" => mdLog[i].err # NoErr

\* ------------------------------------------------------------------------
\* Properties of the template composition
\* ------------------------------------------------------------------------

TemplateCalls ==
    { i \in 1..Len(mdLog) : mdLog[i].op = "createWithTemplate" }

\* what a successful createWithTemplate put in front of the old content
Prepended(c) ==
    SubSeq(c.after.data, 1, Len(c.after.data) - Len(c.before.data))

\* C17 as stated: whatever the number of trailing newlines of the template,
\* what is put in front of the document is the template with its trailing
\* newlines trimmed and exactly two appended.
C17_ExactlyTwoNewlines ==
    \A i \in TemplateCalls :
        mdLog[i].err = NoErr =>
            /\ TrimRight(Prepended(mdLog[i]), "\n")
                 = TrimRight(mdLog[i].template, "\n")
            /\ TrailingNewlines(Prepended(mdLog[i])) = 2

\* C17: a template that ends with fewer than three newlines is put in front
\* of the document with its trailing newlines trimmed and exactly two
\* appended; a template that ends with three or more newlines is put there
\* unchanged.
C17_PaddedUnlessThreeNewlines ==
    \A i \in TemplateCalls :
        mdLog[i].err = NoErr =>
            IF TrailingNewlines(mdLog[i].template) < 3
            THEN /\ TrimRight(Prepended(mdLog[i]), "\n")
                      = TrimRight(mdLog[i].template, "\n")
                 /\ TrailingNewlines(Prepended(mdLog[i])) = 2
            ELSE Prepended(mdLog[i]) = mdLog[i].template

\* a template with three newlines at its end was composed with a document
C17_Witness ==
    \E i \in TemplateCalls :
        /\ mdLog[i].err = NoErr
        /\ TrailingNewlines(mdLog[i].template) >= 3
        /\ mdLog[i].before.data # <<>>

\* C18: after a successful createWithTemplate the file holds the padded
\* template followed by what it held before; a failed read returns
\* ReadFailed and changes no file; the name returned is always the validated
\* filename passed in.
C18_TemplatePrepended ==
    \A i \in TemplateCalls :
        /\ mdLog[i].name = mdLog[i].arg
        /\ mdLog[i].err = NoErr =>
              /\ mdLog[i].after.exists
              /\ mdLog[i].after.data
                   = templateStr(mdLog[i].template) \o mdLog[i].before.data
        /\ (mdLog[i].io = "ReadFailed" \/ ~mdLog[i].before.exists) =>
              /\ mdLog[i].err = "ReadFailed"
              /\ ~mdLog[i].wrote

\* a rendered document got a template in front that the padding changed
C18_Witness ==
    /\ \E i \in TemplateCalls :
          /\ mdLog[i].err = NoErr
          /\ mdLog[i].before.data # <<>>
          /\ mdLog[i].template # templateStr(mdLog[i].template)
    /\ Len(mdLog) = MaxCalls

\* ------------------------------------------------------------------------
\* Properties of the status reporter
\* ------------------------------------------------------------------------

\* the status line existsOrCreated prints for the i-th file of the list
StatusLineOf(i) ==
    [purpose |-> filesToCheck[i].Purpose,
     created |-> doesExist(fs, filesToCheck[i].Name)]

ExecutorStarted ==
    \/ pc \in {"planning", "check", "cleanupStop", "cleanupDrain",
               "cleanupClose", "finish", "returned", "report"}
    \/ planPath # <<>>
    \/ cpResult.kind # "none"

\* C20: every path the run writes or deletes was returned by
\* validateFilePath before that operation, hence is a bare filename of the
\* working directory; and planFile and mdFile have both been validated when
\* the plan executor is started.
C20_OnlyValidatedPathsTouched ==
    /\ \A i \in 1..Len(touched) :
          /\ touched[i].validated
          /\ validateFilePath(touched[i].path)
               = [value |-> touched[i].path, err |-> NoErr]
          /\ ~Contains(touched[i].path, <<"/">>)
    /\ (pc = "createPlan" \/ ExecutorStarted) =>
          /\ planFileValidated \in validatedPaths
          /\ mdFileValidated \in validatedPaths

\* a run whose plan file name cleaning changed wrote the artifact and then
\* the Markdown file
C20_Witness ==
    /\ cfg.planFile # planFileValidated
    /\ \E i, j \in 1..Len(touched) :
          /\ touched[i] = [op |-> "write", path |-> planFileValidated,
                           validated |-> TRUE]
          /\ touched[j] = [op |-> "write", path |-> mdFileValidated,
                           validated |-> TRUE]
          /\ i < j

\* ------------------------------------------------------------------------
\* Properties of stdin mode
\* ------------------------------------------------------------------------

\* C21: with the argument "-" createPlan is never entered and the run
\* neither writes nor deletes a plan artifact: the only file operation is the
\* write of the Markdown file by createMarkdown, the status report has the
\* Markdown line only, and an empty text on stdin ends the run with an error
\* before createMarkdown is called.
C21_StdinBypassesExecutor ==
    cfg.args = "-" =>
        /\ pc \notin {"createPlan", "planning", "check", "cleanupStop",
                      "cleanupDrain", "cleanupClose", "finish", "returned"}
        /\ planPath = <<>> /\ cpResult = NoResult /\ planErr = "none"
        /\ ~showCalled /\ listener = "notStarted" /\ ~sigNotify
        /\ removes = <<>>
        /\ \A i \in 1..Len(touched) :
              touched[i].op = "write" /\ touched[i].path = mdFileValidated
        /\ touched # <<>> => mdCalled /\ cfg.stdin.text # ""
        /\ reportCalled =>
              /\ mdCalled
              /\ \A i \in 1..Len(status) : status[i].purpose = "Markdown"
              /\ Len(status) <= 1
        /\ (pc = "done" /\ cfg.stdin = [st |-> "ok", text |-> ""]
              /\ runResult.kind \notin {"InvalidPlanFile", "InvalidMdFile",
                                        "NoBinaryFound", "MultipleBinariesFound",
                                        "InvalidBinaryName", "BinaryNotFound"}) =>
              /\ runResult.kind = "EmptyPlanFromStdin"
              /\ ~mdCalled
              /\ touched = <<>>

\* a run in stdin mode rendered the text and reported the Markdown file
C21_Witness ==
    /\ cfg.args = "-"
    /\ reportCalled
    /\ runResult = RunOk
    /\ status = <<[purpose |-> "Markdown", created |-> TRUE]>>
    /\ touched = <<Touch("write", mdFileValidated, {mdFileValidated})>>

\* ------------------------------------------------------------------------
\* Properties of the signal teardown
\* ------------------------------------------------------------------------

\* createPlan returned by one of the paths that follow the installation of
\* the listener
ReturnedAfterInstall ==
    cpResult.kind \in {"Interrupted", "PlanFailed", "ShowFailed", "ok"}

\* C22: when createPlan returns after the listener was installed, the
\* teardown is complete: notifications stopped, no signal pending, channel
\* closed.  Within it the notifications are stopped before the drain, the
\* drain is done before the close, and a closed channel never holds a signal,
\* so nothing is sent on it.
C22_TeardownBeforeReturn ==
    /\ ReturnedAfterInstall =>
          ~sigNotify /\ sigChan.closed /\ sigChan.buf = 0 /\ cleanups >= 1
    /\ pc = "cleanupDrain" => ~sigNotify /\ ~sigChan.closed
    /\ pc = "cleanupClose" => ~sigNotify /\ ~sigChan.closed /\ sigChan.buf = 0
    /\ sigChan.closed => ~sigNotify /\ sigChan.buf = 0

\* a signal that arrived during the plan and that the listener never took
\* was drained by the teardown of the failure path
C22_Witness ==
    /\ pc = "returned"
    /\ cpResult.kind = "PlanFailed"
    /\ sigDuringPlan
    /\ listener = "waiting"
    /\ sigChan = [buf |-> 0, closed |-> TRUE]

\* C23: the teardown has run exactly once when createPlan returns after the
\* installation and never more than once; run once more from any state it
\* has left, it recovers from the close of the closed channel, does not
\* crash and changes nothing.
C23_TeardownOnceAndRepeatable ==
    /\ cleanups <= 1
    /\ ReturnedAfterInstall => cleanups = 1
    /\ sigChan.closed =>
          LET again == cleanupSignalResources(sigNotify, sigChan)
          IN  /\ ~again.crashed
              /\ again.recovered
              /\ again.chan = sigChan
              /\ again.notify = sigNotify

\* createPlan returned ErrInterrupted with the teardown done once
C23_Witness ==
    /\ pc = "returned"
    /\ cpResult.kind = "Interrupted"
    /\ cleanups = 1
    /\ sigChan.closed

\* ------------------------------------------------------------------------
\* Properties of the listener goroutine
\* ------------------------------------------------------------------------

\* C24: once tf.Plan has returned, the listener goroutine finishes, unless a
\* signal kills the process; the interrupted flag changes only from false to
\* true, only in the step the listener takes after it received a signal, and
\* a finished listener takes no further step.
C24_ListenerTerminates ==
    /\ [][interrupted' # interrupted =>
            /\ ~interrupted /\ interrupted'
            /\ listener = "received" /\ listener' = "finished"]_vars
    /\ [][listener = "finished" => listener' = "finished"]_vars
    /\ (pc = "check") ~> (listener = "finished" \/ pc = "killed")

\* the listener finished on the closed channel without setting the flag,
\* after the teardown drained a signal
C24_Witness ==
    /\ listener = "finished"
    /\ ~interrupted
    /\ sigCount > 0
    /\ cleanups = 1
    /\ sigChan.closed

\* ------------------------------------------------------------------------
\* Properties of the order of validateFilePath's checks
\* ------------------------------------------------------------------------

\* the five checks in the order of the claim, each with its error and whether
\* the argument p fails it on its own
CheckOutcomes(p) ==
    << [err |-> "EmptyFilename", fails |-> p = <<>>],
       [err |-> "NotFilenameOnly", fails |-> NotFilenameOnlyCheck(Clean(p))],
       [err |-> "InvalidCharacters",
        fails |-> ~MatchValidFilenameChars(Clean(p))],
       [err |-> "TooLong", fails |-> Len(Clean(p)) > maxFilenameLength],
       [err |-> "NullByte", fails |-> ContainsNul(Clean(p))] >>

\* C25: the error of validateFilePath is that of the first check, in the
\* order empty, filename-only, allowed characters, length, null byte, that
\* the argument fails, and nil when it fails none; so a filename with a null
\* byte gets the invalid-characters error and a name of 302 allowed
\* characters the exceeds-maximum-length error.
C25_FirstFailingCheck ==
    vpc = "validated" =>
        LET checks == CheckOutcomes(path)
            failing == { i \in 1..Len(checks) : checks[i].fails }
        IN  /\ failing = {} => got.err = NoErr
            /\ failing # {} =>
                 \E i \in failing :
                    /\ \A j \in failing : i <= j
                    /\ got.err = checks[i].err
            /\ (ContainsNul(path) /\ Base(path) = path) =>
                 got.err = "InvalidCharacters"
            /\ (Len(path) = 302 /\ MatchValidFilenameChars(path)) =>
                 got.err = "TooLong"

\* a filename with a null byte was refused for its characters
C25_Witness ==
    /\ vpc = "validated"
    /\ ContainsNul(path)
    /\ Base(path) = path
    /\ path \notin {<<".">>, <<".", ".">>}
    /\ got.err = "InvalidCharacters"

\* ------------------------------------------------------------------------
\* Properties of createConfig
\* ------------------------------------------------------------------------

ConfigEnded == cpc \in {"returned", "exited"}

\* C26: createConfig changes the config file only when the parameters pass
\* validation; with parameters that fail validation it returns the validation
\* error and leaves every file as it was.
C26_WritesOnlyValidConfig ==
    /\ cfgFs.config # cfgFs0.config => validateConfig(conf) = ConfigNil
    /\ (ConfigEnded /\ cfgRet.kind # "PromptFailed"
          /\ validateConfig(conf) # ConfigNil) =>
         /\ cfgRet = validateConfig(conf)
         /\ cfgFs = cfgFs0

\* C27: while createConfig overwrites an existing config file, the file
\* differs from what it was only if the backup holds what it was; after a
\* failed backup the config file is as it was; and without the user's consent
\* no file and no directory is created or changed.
C27_BackupBeforeOverwrite ==
    /\ (configExists /\ cfgFs.config # cfgFs0.config) =>
         cfgFs.bkup = cfgFs0.config
    /\ cfgRet.kind = "BackupFailed" => cfgFs.config = cfgFs0.config
    /\ (cpc \notin {"off", "start"} /\ ~createFile) => cfgFs = cfgFs0

\* an existing config file was overwritten and the backup holds the old one
C27_Witness ==
    /\ cpc = "returned"
    /\ configExists
    /\ createFile
    /\ cfgFs.config = [exists |-> TRUE, data |-> config]
    /\ cfgFs.bkup = OldConfig
    /\ cfgFs0.bkup = OldBackup

\* ------------------------------------------------------------------------
\* Properties of a run whose plan text is empty
\* ------------------------------------------------------------------------

\* a plan-mode run has ended after createPlan returned an empty plan text
EmptyPlanRunEnded ==
    /\ cfg.args = ""
    /\ cpResult.kind = "ok"
    /\ cpResult.text = ""
    /\ pc = "done"

\* the one write of the run is tf.Plan's write of the plan artifact
OnlyPlanWritten ==
    /\ Len(touched) = 1
    /\ touched[1].op = "write"
    /\ touched[1].path = planPath

\* C28 as claimed: such a run returns no error, writes no Markdown file, and
\* reports the Plan as created and the Markdown as failed to create.
C28_EmptyPlanReportsFailed ==
    EmptyPlanRunEnded =>
        /\ runResult = RunOk
        /\ OnlyPlanWritten
        /\ status = << [purpose |-> "Plan", created |-> TRUE],
                       [purpose |-> "Markdown", created |-> FALSE] >>

\* C28: such a run calls createMarkdown, which writes no file; it returns
\* no error unless a status line cannot be written; the Plan is reported as
\* created and the Markdown by whether a file of its name exists, which is
\* the case when an earlier run left one or when the name is the plan file's.
C28_EmptyPlanReportsExistence ==
    EmptyPlanRunEnded =>
        /\ mdCalled
        /\ OnlyPlanWritten
        /\ pkg = PkgFresh
        /\ runResult.kind \in {NoErr, "VerificationFailed"}
        /\ runResult.kind = NoErr =>
             status = << [purpose |-> "Plan", created |-> TRUE],
                         [purpose |-> "Markdown",
                          created |-> doesExist(fs, mdFileValidated)] >>
        /\ doesExist(fs, mdFileValidated) <=>
             \/ mdFileValidated = planFileValidated
             \/ fs[mdFileValidated] = OldMarkdown

\* the run returned no error and reported the Markdown as failed to create
C28_Witness ==
    /\ EmptyPlanRunEnded
    /\ runResult = RunOk
    /\ mdFileValidated # planFileValidated
    /\ status[2] = [purpose |-> "Markdown", created |-> FALSE]

\* ------------------------------------------------------------------------
\* Properties of the two artifact names
\* ------------------------------------------------------------------------

\* C29: in a plan-mode run that got past the validation of the two names,
\* the Markdown name differs from the plan artifact's, and once createMarkdown
\* has been called the plan artifact tf.Plan wrote is still in its file.
C29_MarkdownNotPlanArtifact ==
    (cfg.args = "" /\ ExecutorStarted) =>
        /\ mdFileValidated # planFileValidated
        /\ mdCalled => fs[planPath] = PlanArtifact

\* ------------------------------------------------------------------------
\* Properties of repeated template composition
\* ------------------------------------------------------------------------

\* the successful createWithTemplate calls that follow a successful one with
\* the same template on the same file
Reapplied ==
    { i \in TemplateCalls :
        /\ i - 1 \in TemplateCalls
        /\ mdLog[i].err = NoErr
        /\ mdLog[i - 1].err = NoErr
        /\ mdLog[i].template = mdLog[i - 1].template
        /\ mdLog[i].target = mdLog[i - 1].target }

\* C30 as claimed: the second application leaves the file as the first left
\* it.
C30_TemplateIdempotent ==
    \A i \in Reapplied : mdLog[i].after = mdLog[i - 1].after

\* C30: the second application puts the padded template in front once more,
\* so that the file holds it twice before what it held at first, and is
\* longer than after the first application.
C30_TemplatePrependedAgain ==
    \A i \in Reapplied :
        /\ mdLog[i].before = mdLog[i - 1].after
        /\ mdLog[i].after.data
             = templateStr(mdLog[i].template)
                 \o templateStr(mdLog[i].template)
                 \o mdLog[i - 1].before.data
        /\ Len(mdLog[i].after.data) > Len(mdLog[i - 1].after.data)

\* the same template was composed twice with a rendered document
C30_Witness ==
    \E i \in Reapplied :
        /\ mdLog[i - 1].before.data # <<>>
        /\ mdLog[i - 2].op = "createMarkdown"
        /\ mdLog[i - 2].after = mdLog[i - 1].before

====
